---------------------------- MODULE Spec2Model ----------------------------
(***************************************************************************)
(* A model of rekordbox_to_jellyfin.py: the UniqueNameResolver, the        *)
(* extraction from the database (_extract_from_database with its deleted   *)
(* filter and its recursive calculate_path_info) and from an XML export,   *)
(* the PathConverter, the PlaylistGenerator with its                       *)
(* clean_output_directory and create_playlist_structure, the               *)
(* SMBSyncManager, and the commands that drive them: main() and the        *)
(* create-playlists and sync-files commands of cli.py.                     *)
(*                                                                         *)
(* Strings are sequences of tokens.  A token is a TLA+ string standing for *)
(* one character or for one indivisible run of characters ("root",         *)
(* " (1)", " - ", "Deep House"); every string of the model has exactly one *)
(* tokenisation, so two token sequences are equal exactly when the Python  *)
(* strings they stand for are equal.                                       *)
(***************************************************************************)
EXTENDS Integers, Sequences, FiniteSets, TLC

VARIABLES
    \* ---- process-wide
    hashseed,          \* the process's str hash: original name -> hash value
    \* ---- one UniqueNameResolver driven by a caller (SpecResolver)
    resolver,          \* [name_mapping, used_names]
    calls,             \* history of get_unique_name calls: <<[original, result]>>
    \* ---- RekordboxExtractor.extract_playlists (SpecExtract, SpecRecords)
    source,            \* what connect() opened: "db" | "xml" | "none"
    catalog,           \* the records the source returns, in iteration order
    name_resolvers,    \* scope key -> UniqueNameResolver state
    stack,             \* calculate_path_info frames awaiting their recursive call
    cur,               \* the frame being entered: [id, visited], or NoFrame
    ret,               \* component list returned by the last finished call
    pc,                \* "first" | "loop" | "call" | "return" | "xml" | "done" | "idle"
    idx,               \* position of the main loop in playlists_by_id
    steps,             \* recursive calls made by the current top-level call
    result_playlists,  \* the list being returned
    reentered,         \* ids for which a call hit the visited guard, with what it returned
    path_info,         \* id -> the component lists the finished calls for it returned
    \* ---- PathConverter (SpecPath)
    symlinks,          \* the file system's symbolic links: absolute path -> target
    cwd,               \* the process working directory
    crates_root,       \* PathConverter.crates_root, resolved at construction
    heap,              \* set objects by reference: ref -> set of path strings
    held,              \* references the caller got from get_invalid_paths
    lastcall,          \* the last validate_and_convert_path call: input and outcome
    \* ---- PlaylistGenerator (SpecFlat, SpecGen, SpecRun)
    playlists,         \* the input list
    flat_mode,         \* PlaylistGenerator.flat_mode
    files,             \* the files of the file system: path -> lines
    dirs,              \* the directories of the file system
    gi,                \* loop position; 0 before clean_output_directory, -1 before main gets there
    flat_resolver,     \* the flat-mode UniqueNameResolver
    flat_names,        \* flat_name computed for each playlist processed so far
    created_playlists, \* full_path -> m3u path
    write_errors,      \* positions whose _write_m3u_file logged an error
    run,               \* number of the clean-and-generate run in progress
    prev,              \* what the previous run left: [files, created, errors]
    \* ---- main and the cli commands (SpecMain), program executions (SpecTwice)
    command,           \* "main" | "create-playlists" | "sync-files" | "none"
    dry_run,           \* create-playlists --dry-run
    check_only,        \* sync-files --check-only
    smb_config,        \* SMB_SERVER, SMB_SHARE, SMB_USERNAME and SMB_PASSWORD are all set
    mpc,               \* position of the command
    exit_code,         \* the process's exit status; -1 while it runs
    report,            \* the per-playlist lines of a dry run: <<[name, valid_tracks]>>
    nas,               \* the files on the share: smb path -> the local path copied, or NasFile
    remote_dirs,       \* the directories smbclient.mkdir was called for
    all_tracks,        \* the tracks handed to check_and_sync_files
    missing_files,     \* check_and_sync_files: <<[track, smb_path]>>
    si,                \* loop position of the dry-run, check and sync loops
    synced_files,      \* check_and_sync_files: the count of files copied
    execution,         \* number of the program execution in progress
    earlier            \* result_playlists of the execution before

resolverVars == <<resolver, calls>>
extractVars  == <<source, catalog, name_resolvers, stack, cur, ret, pc, idx, steps,
                  result_playlists, reentered, path_info>>
pathVars     == <<symlinks, cwd, crates_root, heap, held, lastcall>>
flatVars     == <<playlists, flat_mode, files, dirs, gi, flat_resolver,
                  flat_names, created_playlists, write_errors, run, prev>>
mainVars     == <<command, dry_run, check_only, smb_config, mpc, exit_code, report,
                  nas, remote_dirs, all_tracks, missing_files, si, synced_files,
                  execution, earlier>>
vars == <<hashseed, resolverVars, extractVars, pathVars, flatVars, mainVars>>

-----------------------------------------------------------------------------
(* Bounds of the model *)

\* get_unique_name calls the caller of SpecResolver makes
MaxCalls == 4

\* records in the catalog handed to the extraction
NumNodes == 3

\* sets the caller of SpecSnapshot gets from get_invalid_paths
MaxSnapshots == 2

\* playlists in the list handed to create_playlist_structure
MaxPlaylists == 2

\* cap on the recursive calls of one calculate_path_info walk
MaxSteps == 6

\* program constant: the modulus of the fallback name (line 62)
HashMod == 10000

-----------------------------------------------------------------------------
(* Strings *)

\* characters pathvalidate's sanitize_filename deletes
IllegalChars == {"/", "*"}

\* str.join over a list of strings
RECURSIVE JoinWith(_, _)
JoinWith(sep, parts) ==
    IF parts = <<>> THEN <<>>
    ELSE IF Len(parts) = 1 THEN parts[1]
    ELSE parts[1] \o <<sep>> \o JoinWith(sep, Tail(parts))

\* sanitize_filename(original_name): the illegal characters are deleted
sanitize_filename(s) == SelectSeq(s, LAMBDA c : c \notin IllegalChars)

\* str.isspace(): non-empty and nothing but white space
isspace(s) == s # <<>> /\ \A i \in 1..Len(s) : s[i] = " "

\* hash(original_name) of this process
hash(original_name) == hashseed[original_name]

\* f"playlist_{hash(original_name) % 10000}"
FallbackName(original_name) ==
    <<"playlist_", ToString(hash(original_name) % HashMod)>>

\* f"{base_sanitized} ({counter})"
Candidate(base_sanitized, counter) ==
    base_sanitized \o <<" (" \o ToString(counter) \o ")">>

-----------------------------------------------------------------------------
(* UniqueNameResolver *)

\* UniqueNameResolver.__init__
NewResolver == [name_mapping |-> <<>>, used_names |-> {}]

\* dict assignment d[k] = v
Put(d, k, v) == [x \in (DOMAIN d) \cup {k} |-> IF x = k THEN v ELSE d[x]]

\* faulty variant: no fallback for a name that sanitizes to nothing
BaseSanitized_NoFallback(original_name) == sanitize_filename(original_name)

\* lines 58-62: base_sanitized, with the fallback for an empty result
BaseSanitized(original_name) ==
    LET s == sanitize_filename(original_name)
    IN  IF s = <<>> \/ isspace(s) THEN FallbackName(original_name) ELSE s

\* lines 71-79: the while loop probing "base (counter)"
RECURSIVE Probe(_, _, _)
Probe(used_names, base_sanitized, counter) ==
    IF Candidate(base_sanitized, counter) \notin used_names
    THEN Candidate(base_sanitized, counter)
    ELSE Probe(used_names, base_sanitized, counter + 1)

\* faulty variant: the cache look-up of lines 54-55 is missing
GetUniqueName_NoCache(r, original_name) ==
    LET base == BaseSanitized(original_name)
        name == IF base \notin r.used_names THEN base
                ELSE Probe(r.used_names, base, 1)
    IN  [name |-> name,
         r |-> [name_mapping |-> Put(r.name_mapping, original_name, name),
                used_names |-> r.used_names \cup {name}]]

\* faulty variant: the probe starts at 2, as the comment of line 73 says
GetUniqueName_ProbeFrom2(r, original_name) ==
    IF original_name \in DOMAIN r.name_mapping
    THEN [name |-> r.name_mapping[original_name], r |-> r]
    ELSE LET base == BaseSanitized(original_name)
             name == IF base \notin r.used_names THEN base
                     ELSE Probe(r.used_names, base, 2)
         IN  [name |-> name,
              r |-> [name_mapping |-> Put(r.name_mapping, original_name, name),
                     used_names |-> r.used_names \cup {name}]]

\* faulty variant: a colliding name is returned without being claimed in used_names
GetUniqueName_NoClaim(r, original_name) ==
    IF original_name \in DOMAIN r.name_mapping
    THEN [name |-> r.name_mapping[original_name], r |-> r]
    ELSE LET base == BaseSanitized(original_name)
         IN  IF base \notin r.used_names
             THEN [name |-> base,
                   r |-> [name_mapping |-> Put(r.name_mapping, original_name, base),
                          used_names |-> r.used_names \cup {base}]]
             ELSE LET name == Probe(r.used_names, base, 1)
                  IN  [name |-> name,
                       r |-> [name_mapping |-> Put(r.name_mapping, original_name, name),
                              used_names |-> r.used_names]]

\* UniqueNameResolver.get_unique_name: the returned name and the resolver after
GetUniqueName(r, original_name) ==
    IF original_name \in DOMAIN r.name_mapping
    THEN [name |-> r.name_mapping[original_name], r |-> r]
    ELSE LET base == BaseSanitized(original_name)
             name == IF base \notin r.used_names THEN base
                     ELSE Probe(r.used_names, base, 1)
         IN  [name |-> name,
              r |-> [name_mapping |-> Put(r.name_mapping, original_name, name),
                     used_names |-> r.used_names \cup {name}]]

-----------------------------------------------------------------------------
(* Values of the variables a specification does not use *)

NoFrame == [id |-> "none", visited |-> {}]
NoCall  == [path |-> <<"no call">>, raised |-> FALSE, result |-> <<>>]
NoRun   == [files |-> <<>>, created |-> <<>>, errors |-> {}]

IdleResolver == resolver = NewResolver /\ calls = <<>>

IdleExtract ==
    /\ source = "none"
    /\ catalog = <<>> /\ name_resolvers = <<>> /\ stack = <<>> /\ cur = NoFrame
    /\ ret = <<>> /\ pc = "idle" /\ idx = 0 /\ steps = 0
    /\ result_playlists = <<>> /\ reentered = {} /\ path_info = <<>>

IdlePath ==
    /\ symlinks = <<>> /\ cwd = <<>> /\ crates_root = <<>>
    /\ heap = <<>> /\ held = {}
    /\ lastcall = NoCall

IdleFlat ==
    /\ playlists = <<>> /\ flat_mode = FALSE /\ files = <<>> /\ dirs = {}
    /\ gi = 0 /\ flat_resolver = NewResolver
    /\ flat_names = <<>> /\ created_playlists = <<>>
    /\ write_errors = {} /\ run = 0 /\ prev = NoRun

IdleMain ==
    /\ command = "none" /\ dry_run = FALSE /\ check_only = FALSE /\ smb_config = FALSE
    /\ mpc = "idle" /\ exit_code = -1 /\ report = <<>>
    /\ nas = <<>> /\ remote_dirs = {} /\ all_tracks = <<>> /\ missing_files = <<>>
    /\ si = 0 /\ synced_files = 0
    /\ execution = 1 /\ earlier = <<>>

-----------------------------------------------------------------------------
(* SpecResolver: a caller driving one UniqueNameResolver instance *)

\* original names the callers of the resolver pass
ResolverNames ==
    { <<"a">>, <<"a", "/">>, <<"a", "*">>, <<"*", "a">>, <<"a", " (1)">>,
      <<"/">>, <<" ">> }

\* names whose hash the fallback may read, and the hash values a process may give
HashInputs == { <<"/">>, <<" ">> }
HashValues == { 7, 10007, 42 }

InitResolver ==
    /\ hashseed \in [HashInputs -> HashValues]
    /\ resolver = NewResolver
    /\ calls = <<>>
    /\ IdleExtract /\ IdlePath /\ IdleFlat /\ IdleMain

\* resolver.get_unique_name(original_name), as the tests call it
CallGetUniqueName(original_name) ==
    /\ Len(calls) < MaxCalls
    /\ LET g == GetUniqueName(resolver, original_name)
       IN  /\ resolver' = g.r
           /\ calls' = Append(calls, [original |-> original_name, result |-> g.name])
    /\ UNCHANGED <<hashseed, extractVars, pathVars, flatVars, mainVars>>

NextResolver == \E o \in ResolverNames : CallGetUniqueName(o)

SpecResolver == InitResolver /\ [][NextResolver]_vars

\* positions of the history at which original name o was passed
CallsOf(h, o) == {i \in 1..Len(h) : h[i].original = o}

\* the result of the first call of the history for original name o
FirstResult(h, o) ==
    h[CHOOSE i \in CallsOf(h, o) : \A j \in CallsOf(h, o) : i <= j].result

\* the values of a dict
Values(d) == {d[k] : k \in DOMAIN d}

(* C2: on one resolver, a call with an original name already seen returns
   what the first call for that name returned and leaves name_mapping and
   used_names as they were. *)
C2_RepeatIsCached ==
    [][ calls' # calls =>
          LET c == calls'[Len(calls')]
          IN  CallsOf(calls, c.original) # {} =>
                /\ c.result = FirstResult(calls, c.original)
                /\ resolver' = resolver ]_vars

\* a name that had taken a suffix slot was passed again
C2_Witness ==
    \E i, j \in 1..Len(calls) :
        /\ i < j
        /\ calls[i].original = calls[j].original
        /\ calls[i].result # BaseSanitized(calls[i].original)

\* the calls so far passed pairwise distinct names with one common base
SameBaseRun(h) ==
    /\ h # <<>>
    /\ \A i, j \in 1..Len(h) : i # j => h[i].original # h[j].original
    /\ \A i \in 1..Len(h) : BaseSanitized(h[i].original) = BaseSanitized(h[1].original)

(* C3: on a fresh resolver, N pairwise distinct original names with the same
   sanitized base get base, "base (1)", ..., "base (N-1)", in call order. *)
C3_SuffixesInOrder ==
    SameBaseRun(calls) =>
        \A i \in 1..Len(calls) :
            calls[i].result =
                IF i = 1 THEN BaseSanitized(calls[1].original)
                ELSE Candidate(BaseSanitized(calls[1].original), i - 1)

\* four distinct names with one base have been resolved
C3_Witness == SameBaseRun(calls) /\ Len(calls) >= 4

(* C4: distinct original names have distinct resolved names, used_names is
   exactly the set of values of name_mapping, and both hold one entry per
   distinct original name seen. *)
C4_OneEntryPerName ==
    /\ DOMAIN resolver.name_mapping = {calls[i].original : i \in 1..Len(calls)}
    /\ \A o1, o2 \in DOMAIN resolver.name_mapping :
          o1 # o2 => resolver.name_mapping[o1] # resolver.name_mapping[o2]
    /\ resolver.used_names = Values(resolver.name_mapping)
    /\ Cardinality(resolver.used_names) = Cardinality(DOMAIN resolver.name_mapping)

\* three names were resolved, one of them to a suffixed name, one passed twice
C4_Witness ==
    /\ Cardinality(DOMAIN resolver.name_mapping) = 3
    /\ Len(calls) = 4
    /\ \E o \in DOMAIN resolver.name_mapping :
          resolver.name_mapping[o] # BaseSanitized(o)

-----------------------------------------------------------------------------
(* pathlib: a path is its sequence of components; an absolute path starts
   with the anchor "/".  <<>> is Path(), the path ".". *)

\* None
None == <<>>

\* Path.is_absolute
IsAbs(p) == p # <<>> /\ p[1] = "/"

\* one string per component, for str.join
Components(p) == [i \in 1..Len(p) |-> <<p[i]>>]

\* str(path)
StrOf(p) ==
    IF p = <<>> THEN <<".">>
    ELSE IF IsAbs(p) THEN <<"/">> \o JoinWith("/", Components(Tail(p)))
    ELSE JoinWith("/", Components(p))

\* os.path.realpath: the components are walked from the root, ".." steps
\* to the parent and a symbolic link is replaced by its target
RECURSIVE Realpath(_, _)
Realpath(done, rest) ==
    IF rest = <<>> THEN done
    ELSE IF Head(rest) = ".."
    THEN Realpath(IF Len(done) > 1 THEN SubSeq(done, 1, Len(done) - 1) ELSE done,
                  Tail(rest))
    ELSE IF (done \o <<Head(rest)>>) \in DOMAIN symlinks
    THEN Realpath(<<"/">>, Tail(symlinks[done \o <<Head(rest)>>]) \o Tail(rest))
    ELSE Realpath(done \o <<Head(rest)>>, Tail(rest))

\* Path.resolve(): made absolute against the working directory, then canonical
Resolve(p) == Realpath(<<"/">>, Tail(IF IsAbs(p) THEN p ELSE cwd \o p))

\* a token of a path string that is a component
IsComponent(token) == token # "/" /\ token # "."

\* Path(s) of a string: the anchor, then the components between the separators
PathOf(str) ==
    (IF str # <<>> /\ str[1] = "/" THEN <<"/">> ELSE <<>>) \o SelectSeq(str, IsComponent)

-----------------------------------------------------------------------------
(* SpecExtract: RekordboxExtractor._extract_from_database *)

\* rb_playlist.ID of the record at position i of the catalog
IdOf(i) == ToString(i)

\* the ParentID sentinel of the root level, and a ParentID no record has
RootID    == "root"
MissingID == "missing"

NodeIDs == {IdOf(i) : i \in 1..NumNodes}

\* rb_playlist.Name values of the catalogs explored
ExtractNames == { <<"a">>, <<"a", "/">>, <<"root">> }

\* song.Content rows: kept, without a rb_local_deleted attribute, flagged
\* deleted, and without a title and an artist; Artist is the artist's name,
\* <<>> when content.Artist is None; FolderPath is the path string
GoodContent      == [rb_local_deleted |-> "False",   Title |-> <<"T1">>,
                     Artist |-> <<"Ar">>,
                     FolderPath |-> <<"/", "crates", "/", "A", "/", "B", "/", "t.mp3">>]
UnflaggedContent == [rb_local_deleted |-> "missing", Title |-> <<"T2">>,
                     Artist |-> <<"Ar">>,
                     FolderPath |-> <<"/", "crates", "/", "A", "/", "t.mp3">>]
DeletedContent   == [rb_local_deleted |-> "True",    Title |-> <<"T3">>,
                     Artist |-> <<"Ar">>,
                     FolderPath |-> <<"/", "crates", "/", "A", "/", "d.mp3">>]
UntitledContent  == [rb_local_deleted |-> "False",   Title |-> <<>>,
                     Artist |-> <<>>,
                     FolderPath |-> <<"/", "crates", "/", "A", "/", "u.mp3">>]

\* a song with a content row, and one whose Content is None (<<>>)
SongOf(content) == [Content |-> <<content>>]
NoContentSong   == [Content |-> <<>>]

\* records: folders (Attribute 1 or 4) and playlists (Attribute 0) with one
\* track, all of them flagged not deleted and well-formed
NodeRecords ==
    [ParentID : NodeIDs \cup {RootID, MissingID},
     Name : ExtractNames,
     is_folder : BOOLEAN,
     rb_local_deleted : {"False"},
     Songs : { <<SongOf(GoodContent)>> },
     raises : {FALSE}]

\* lines 181-230: playlists_by_id, in insertion (iteration) order
Catalogs == [1..NumNodes -> NodeRecords]

\* faulty variant: the rb_local_deleted flag is not looked at
IsDeleted_Never(obj) == FALSE

\* getattr(obj, "rb_local_deleted", False)
IsDeleted(obj) ==
    IF obj.rb_local_deleted = "missing" THEN FALSE ELSE obj.rb_local_deleted = "True"

\* line 190: hasattr(song, "Content") and song.Content
\* (line 323: track_data and hasattr(track_data, "Location"))
HasContent(song) == song.Content # <<>>

\* lines 197-208 (329-338): the Track built from a content row
TrackOf(content) ==
    [title |-> IF content # <<>> /\ content[1].Title # <<>>
               THEN content[1].Title ELSE <<"Unknown">>,
     artist |-> IF content # <<>> /\ content[1].Artist # <<>>
                THEN content[1].Artist ELSE <<"Unknown">>,
     file_path |-> IF content # <<>> /\ content[1].FolderPath # <<>>
                   THEN PathOf(content[1].FolderPath) ELSE <<>>]

\* lines 189-209 (321-339): the tracks collected from the songs
RECURSIVE CollectTracks(_)
CollectTracks(songs) ==
    IF songs = <<>> THEN <<>>
    ELSE IF HasContent(Head(songs))
            /\ ~(Head(songs).Content # <<>> /\ IsDeleted(Head(songs).Content[1]))
    THEN <<TrackOf(Head(songs).Content)>> \o CollectTracks(Tail(songs))
    ELSE CollectTracks(Tail(songs))

\* lines 182-209: playlist.tracks of a record: songs are read for Attribute 0 only
Tracks(d) == IF d.is_folder THEN <<>> ELSE CollectTracks(d.Songs)

\* playlist_id in playlists_by_id: a record that lines 153-155 kept
InCatalog(id) ==
    \E i \in 1..Len(catalog) : IdOf(i) = id /\ ~IsDeleted(catalog[i])

\* playlists_by_id[playlist_id]
Node(id) == catalog[CHOOSE i \in 1..Len(catalog) : IdOf(i) = id]

\* line 272: playlist.tracks is non-empty
HasTracks(d) == Tracks(d) # <<>>

\* faulty variant: every record is included
Included_All(d) == TRUE

\* line 272: not is_folder and playlist.tracks
Included(d) == ~d.is_folder /\ HasTracks(d)

\* the scope key of the root level (line 249)
RootScope == <<"root">>

\* lines 171-175: get_name_resolver creates the resolver of a path on first use
GetNameResolver(nr, path) ==
    IF path \in DOMAIN nr THEN nr ELSE Put(nr, path, NewResolver)

\* resolver = get_name_resolver(path); unique_name = resolver.get_unique_name(name)
ResolveIn(nr, path, original_name) ==
    LET nr1 == GetNameResolver(nr, path)
        g   == GetUniqueName(nr1[path], original_name)
    IN  [name |-> g.name, nr |-> Put(nr1, path, g.r)]

InitExtractWith(cats) ==
    /\ hashseed = [o \in HashInputs |-> 7]
    /\ source = "db"
    /\ catalog \in cats
    /\ name_resolvers = <<>>
    /\ stack = <<>> /\ cur = NoFrame /\ ret = <<>>
    /\ pc = "first" /\ idx = 1 /\ steps = 0
    /\ result_playlists = <<>> /\ reentered = {} /\ path_info = <<>>
    /\ IdleResolver /\ IdlePath /\ IdleFlat /\ IdleMain

InitExtract == InitExtractWith(Catalogs)

\* a non-deleted record whose attributes cannot be read
FirstPassRaises == \E i \in 1..Len(catalog) : ~IsDeleted(catalog[i]) /\ catalog[i].raises

\* lines 152-230: the deleted filter and the first pass over the records;
\* an exception raised by a record is caught at line 297, which returns []
FirstPass ==
    /\ pc = "first"
    /\ pc' = IF FirstPassRaises THEN "done" ELSE "loop"
    /\ UNCHANGED <<hashseed, source, catalog, name_resolvers, stack, cur, ret, idx,
                   steps, result_playlists, reentered, path_info, resolverVars, mainVars, pathVars, flatVars>>

\* lines 267-273: the main loop takes the next record of playlists_by_id, and
\* calls calculate_path_info(playlist_id) for a playlist that has tracks
LoopStep ==
    /\ pc = "loop" /\ idx <= Len(catalog)
    /\ IF ~IsDeleted(catalog[idx]) /\ Included(catalog[idx])
       THEN /\ cur' = [id |-> IdOf(idx), visited |-> {}]
            /\ pc' = "call" /\ steps' = 0
            /\ UNCHANGED idx
       ELSE /\ idx' = idx + 1
            /\ UNCHANGED <<cur, pc, steps>>
    /\ UNCHANGED <<hashseed, source, catalog, name_resolvers, stack, ret,
                   result_playlists, reentered, path_info, resolverVars, mainVars, pathVars, flatVars>>

\* line 295: the loop is over, result_playlists is returned
LoopEnd ==
    /\ pc = "loop" /\ idx > Len(catalog)
    /\ pc' = "done"
    /\ UNCHANGED <<hashseed, source, catalog, name_resolvers, stack, cur, ret, idx, steps,
                   result_playlists, reentered, path_info, resolverVars, mainVars, pathVars, flatVars>>

\* the history of returned component lists, with one more return
Returns(h, id, components) ==
    Put(h, id, (IF id \in DOMAIN h THEN h[id] ELSE {}) \cup {components})

\* faulty variant: no circular reference protection
AlreadyVisited_Never(frame) == FALSE

\* line 236: playlist_id in visited
AlreadyVisited(frame) == frame.id \in frame.visited

\* lines 236-241: a call that returns [] at once: the id is on the chain
\* already, or it is not in playlists_by_id
CallReturnsEmpty ==
    /\ pc = "call"
    /\ AlreadyVisited(cur) \/ ~InCatalog(cur.id)
    /\ ret' = <<>> /\ pc' = "return" /\ cur' = NoFrame
    /\ reentered' = IF AlreadyVisited(cur) THEN reentered \cup {cur.id} ELSE reentered
    /\ UNCHANGED <<hashseed, source, catalog, name_resolvers, stack, idx, steps,
                   result_playlists, path_info, resolverVars, mainVars, pathVars,
                   flatVars>>

\* lines 247-251: a root-level record is named by the "root" resolver
CallAtRoot ==
    /\ pc = "call"
    /\ ~AlreadyVisited(cur) /\ InCatalog(cur.id)
    /\ Node(cur.id).ParentID = RootID
    /\ LET g == ResolveIn(name_resolvers, RootScope, Node(cur.id).Name)
       IN  /\ name_resolvers' = g.nr
           /\ ret' = <<g.name>>
           /\ path_info' = Returns(path_info, cur.id, <<g.name>>)
    /\ pc' = "return" /\ cur' = NoFrame
    /\ UNCHANGED <<hashseed, source, catalog, stack, idx, steps, result_playlists,
                   reentered, resolverVars, mainVars, pathVars, flatVars>>

\* lines 252-255: the recursive call for the parent, with a copy of visited
CallRecurse ==
    /\ pc = "call"
    /\ ~AlreadyVisited(cur) /\ InCatalog(cur.id)
    /\ Node(cur.id).ParentID # RootID
    /\ steps < MaxSteps
    /\ stack' = Append(stack, cur.id)
    /\ cur' = [id |-> Node(cur.id).ParentID, visited |-> cur.visited \cup {cur.id}]
    /\ steps' = steps + 1
    /\ UNCHANGED <<hashseed, source, catalog, name_resolvers, ret, pc, idx,
                   result_playlists, reentered, path_info, resolverVars, mainVars, pathVars, flatVars>>

\* lines 256-262: back in the caller: the record is named by the resolver of
\* its parent's path and appended to the parent's components
ReturnToCaller ==
    /\ pc = "return" /\ stack # <<>>
    /\ LET id == stack[Len(stack)]
           parent_path == JoinWith("/", ret)
           g == ResolveIn(name_resolvers, parent_path, Node(id).Name)
       IN  /\ name_resolvers' = g.nr
           /\ ret' = ret \o <<g.name>>
           /\ path_info' = Returns(path_info, id, ret \o <<g.name>>)
    /\ stack' = SubSeq(stack, 1, Len(stack) - 1)
    /\ UNCHANGED <<hashseed, source, catalog, cur, pc, idx, steps, result_playlists,
                   reentered, resolverVars, mainVars, pathVars, flatVars>>

\* lines 273-287: back in the main loop: name and path are set from the
\* components and the playlist is appended; path_components[-1] of an empty
\* list raises, and line 297 then returns []
ReturnToLoop ==
    /\ pc = "return" /\ stack = <<>>
    /\ IF ret = <<>>
       THEN /\ result_playlists' = <<>>
            /\ pc' = "done"
            /\ UNCHANGED idx
       ELSE /\ result_playlists' =
                  Append(result_playlists,
                         [id |-> IdOf(idx),
                          name |-> ret[Len(ret)],
                          path |-> JoinWith("/", SubSeq(ret, 1, Len(ret) - 1)),
                          tracks |-> Tracks(catalog[idx])])
            /\ idx' = idx + 1
            /\ pc' = "loop"
    /\ UNCHANGED <<hashseed, source, catalog, name_resolvers, stack, cur, ret, steps,
                   reentered, path_info, resolverVars, mainVars, pathVars, flatVars>>

NextExtract ==
    \/ FirstPass
    \/ LoopStep
    \/ LoopEnd
    \/ CallReturnsEmpty
    \/ CallAtRoot
    \/ CallRecurse
    \/ ReturnToCaller
    \/ ReturnToLoop

SpecExtract == InitExtract /\ [][NextExtract]_vars

\* the single-threaded extraction always takes its next step
FairSpecExtract == SpecExtract /\ WF_vars(NextExtract)

\* catalogs of every parent structure: the walk's control flow reads no name
WalkCatalogs == {c \in Catalogs : \A i \in 1..NumNodes : c[i].Name = <<"a">>}

InitWalk == InitExtractWith(WalkCatalogs)

FairSpecWalk == InitWalk /\ [][NextExtract]_vars /\ WF_vars(NextExtract)

(* C1: any two distinct playlists of the returned list that have the same
   path have different names, also when records of one parent scope carry
   the identical original name. *)
C1_UniqueNamePerPath ==
    \A i, j \in 1..Len(result_playlists) :
        (i # j /\ result_playlists[i].path = result_playlists[j].path)
            => result_playlists[i].name # result_playlists[j].name

\* no other record with the same ParentID has the same sanitized name
NoSiblingCollision(id) ==
    \A i \in 1..Len(catalog) :
        (IdOf(i) # id /\ catalog[i].ParentID = Node(id).ParentID)
            => BaseSanitized(catalog[i].Name) # BaseSanitized(Node(id).Name)

(* C5: a returned playlist whose sanitized name collides with no sibling in
   its own parent scope has exactly its clean sanitized name, whatever names
   exist in other scopes (the root scope, folders of any name). *)
C5_ScopesDoNotInterfere ==
    \A i \in 1..Len(result_playlists) :
        NoSiblingCollision(result_playlists[i].id)
            => result_playlists[i].name =
                   BaseSanitized(Node(result_playlists[i].id).Name)

(* C6: calculate_path_info terminates for every node of every catalog,
   cyclic ones included: a call for an id already on the ancestor chain
   returns the empty component list, one walk makes at most as many
   recursive calls as the catalog has records, and the extraction ends. *)
C6_WalkTerminates ==
    /\ [](steps <= Len(catalog))
    /\ [][ (pc = "call" /\ cur.id \in cur.visited)
              => (ret' = <<>> /\ pc' = "return" /\ stack' = stack) ]_vars
    /\ <>(pc = "done")

\* the extraction of a catalog with a two-record parent cycle has ended, and
\* a walk ran into the cycle
C6_Witness ==
    /\ pc = "done"
    /\ \E i, j \in 1..Len(catalog) :
          /\ i # j
          /\ catalog[i].ParentID = IdOf(j)
          /\ catalog[j].ParentID = IdOf(i)
          /\ IdOf(i) \in reentered
          /\ \E k \in 1..Len(result_playlists) : result_playlists[k].id = IdOf(i)

-----------------------------------------------------------------------------
(* SpecRecords: extract_playlists on a database or an XML export whose
   records are deleted or not, folders or playlists, with and without usable
   songs, well-formed or not *)

\* lines 333-337: the XML source resolves the path of a track that has one
ResolvedTracks(tracks) ==
    [k \in 1..Len(tracks) |->
        [tracks[k] EXCEPT !.file_path = IF @ # <<>> THEN Resolve(@) ELSE @]]

\* lines 311-354: one iteration of the loop over the XML playlists; an
\* exception raised by a playlist ends the loop at line 365, and what was
\* collected before is returned
XmlStep ==
    /\ pc = "xml" /\ idx <= Len(catalog)
    /\ LET xml_playlist == catalog[idx]
           tracks == ResolvedTracks(CollectTracks(xml_playlist.Songs))
       IN  IF IsDeleted(xml_playlist)
           THEN idx' = idx + 1 /\ UNCHANGED <<pc, result_playlists>>
           ELSE IF xml_playlist.raises
           THEN pc' = "done" /\ UNCHANGED <<idx, result_playlists>>
           ELSE /\ result_playlists' =
                      IF tracks # <<>>
                      THEN Append(result_playlists,
                                  [id |-> IdOf(idx),
                                   name |-> xml_playlist.Name,
                                   path |-> xml_playlist.Name,
                                   tracks |-> tracks])
                      ELSE result_playlists
                /\ idx' = idx + 1
                /\ UNCHANGED pc
    /\ UNCHANGED <<hashseed, source, catalog, name_resolvers, stack, cur, ret, steps,
                   reentered, path_info, resolverVars, mainVars, pathVars, flatVars>>

\* line 368: the loop is over, playlists is returned
XmlEnd ==
    /\ pc = "xml" /\ idx > Len(catalog)
    /\ pc' = "done"
    /\ UNCHANGED <<hashseed, source, catalog, name_resolvers, stack, cur, ret, idx,
                   steps, result_playlists, reentered, path_info, resolverVars, mainVars, pathVars, flatVars>>

NextXml ==
    \/ XmlStep
    \/ XmlEnd

\* what a record is, apart from its place in the tree: a playlist with a
\* track, one without the deleted attribute, a deleted one, a folder, a
\* deleted folder, a playlist without songs, with a song without content,
\* with a deleted and a kept song, with a deleted song only, an untitled
\* song, and a record whose attributes cannot be read
RecordKinds ==
    { [is_folder |-> FALSE, rb_local_deleted |-> "False",
       Songs |-> <<SongOf(GoodContent)>>, raises |-> FALSE],
      [is_folder |-> FALSE, rb_local_deleted |-> "missing",
       Songs |-> <<SongOf(UnflaggedContent)>>, raises |-> FALSE],
      [is_folder |-> FALSE, rb_local_deleted |-> "True",
       Songs |-> <<SongOf(GoodContent)>>, raises |-> FALSE],
      [is_folder |-> TRUE, rb_local_deleted |-> "False",
       Songs |-> <<>>, raises |-> FALSE],
      [is_folder |-> TRUE, rb_local_deleted |-> "True",
       Songs |-> <<>>, raises |-> FALSE],
      [is_folder |-> FALSE, rb_local_deleted |-> "False",
       Songs |-> <<>>, raises |-> FALSE],
      [is_folder |-> FALSE, rb_local_deleted |-> "False",
       Songs |-> <<NoContentSong>>, raises |-> FALSE],
      [is_folder |-> FALSE, rb_local_deleted |-> "False",
       Songs |-> <<SongOf(DeletedContent), SongOf(GoodContent)>>, raises |-> FALSE],
      [is_folder |-> FALSE, rb_local_deleted |-> "False",
       Songs |-> <<SongOf(DeletedContent)>>, raises |-> FALSE],
      [is_folder |-> FALSE, rb_local_deleted |-> "False",
       Songs |-> <<NoContentSong, SongOf(UntitledContent)>>, raises |-> FALSE],
      [is_folder |-> FALSE, rb_local_deleted |-> "False",
       Songs |-> <<SongOf(GoodContent)>>, raises |-> TRUE] }

\* a record of a kind with a parent
Placed(k, p) ==
    [ParentID |-> p, Name |-> <<"a">>, is_folder |-> k.is_folder,
     rb_local_deleted |-> k.rb_local_deleted, Songs |-> k.Songs,
     raises |-> k.raises]

\* records of every kind at the root level, and playlists with a usable
\* song below the first record
PlacedRecords ==
    { Placed(k, RootID) : k \in RecordKinds }
    \cup { Placed(k, IdOf(1)) :
             k \in {r \in RecordKinds : /\ ~r.is_folder /\ ~r.raises
                                        /\ r.rb_local_deleted # "True"
                                        /\ Len(r.Songs) = 1
                                        /\ r.Songs[1].Content # <<>>
                                        /\ r.Songs[1].Content[1].rb_local_deleted # "True"} }

RecordCatalogs == [1..NumNodes -> PlacedRecords]

\* lines 131-139: extract_playlists on what connect() opened
InitRecords ==
    /\ hashseed = [o \in HashInputs |-> 7]
    /\ source \in {"db", "xml"}
    /\ catalog \in RecordCatalogs
    /\ name_resolvers = <<>>
    /\ stack = <<>> /\ cur = NoFrame /\ ret = <<>>
    /\ pc = IF source = "db" THEN "first" ELSE "xml"
    /\ idx = 1 /\ steps = 0
    /\ result_playlists = <<>> /\ reentered = {} /\ path_info = <<>>
    /\ IdleResolver /\ IdlePath /\ IdleFlat /\ IdleMain

NextRecords ==
    \/ NextExtract
    \/ NextXml

SpecRecords == InitRecords /\ [][NextRecords]_vars

\* extract_playlists has returned
Returned == pc = "done"

\* the record a returned playlist was made from
RecordOf(e) == catalog[CHOOSE i \in 1..Len(catalog) : IdOf(i) = e.id]

\* the ids of the returned playlists
ResultIds == {result_playlists[k].id : k \in 1..Len(result_playlists)}

\* the content rows of the songs of a record
Contents(d) ==
    {d.Songs[k].Content[1] : k \in {j \in 1..Len(d.Songs) : d.Songs[j].Content # <<>>}}

\* the titles of a list of tracks
Titles(tracks) == {tracks[k].title : k \in 1..Len(tracks)}

\* the source reads the songs of the record: an XML playlist, or Attribute 0
ReadsSongs(d) == source = "xml" \/ ~d.is_folder

\* the record has a song with a content row not flagged deleted
HasUsableSong(d) == \E c \in Contents(d) : c.rb_local_deleted # "True"

\* a record not flagged deleted cannot be read
SomeRecordRaises ==
    \E i \in 1..Len(catalog) :
        catalog[i].rb_local_deleted # "True" /\ catalog[i].raises

(* C17: no playlist flagged locally-deleted appears in the extraction result
   and no track flagged locally-deleted appears in any returned playlist's
   tracks, for the database and the XML source; a record or track with no
   deleted flag at all is treated as not deleted: its track is in the
   playlist, and the playlist is returned by an extraction that ran through. *)
C17_DeletedAreFilteredOut ==
    /\ \A k \in 1..Len(result_playlists) :
          LET e == result_playlists[k]
          IN  /\ RecordOf(e).rb_local_deleted # "True"
              /\ \A c \in Contents(RecordOf(e)) :
                    /\ c.rb_local_deleted = "True" => c.Title \notin Titles(e.tracks)
                    /\ c.rb_local_deleted = "missing" => c.Title \in Titles(e.tracks)
    /\ (Returned /\ ~SomeRecordRaises) =>
          \A i \in 1..Len(catalog) :
              ( /\ catalog[i].rb_local_deleted = "missing"
                /\ ReadsSongs(catalog[i])
                /\ HasUsableSong(catalog[i]) ) => IdOf(i) \in ResultIds

\* a database extraction returned a playlist without the deleted attribute
\* and one with a deleted and a kept song, from a catalog with a deleted playlist
C17_Witness ==
    /\ Returned /\ source = "db"
    /\ Len(result_playlists) = 2
    /\ \E i \in 1..Len(catalog) :
          /\ catalog[i].rb_local_deleted = "True"
          /\ ~catalog[i].is_folder
          /\ HasUsableSong(catalog[i])
    /\ \E k \in 1..Len(result_playlists) :
          RecordOf(result_playlists[k]).rb_local_deleted = "missing"
    /\ \E k \in 1..Len(result_playlists) :
          /\ Len(RecordOf(result_playlists[k]).Songs) = 2
          /\ Len(result_playlists[k].tracks) = 1

(* C18: every non-deleted catalog record becomes a resolved
   Playlist in the result of the database extraction: folders and playlists
   with zero tracks are retained. *)
C18_EveryRecordIsRetained ==
    (Returned /\ source = "db" /\ ~SomeRecordRaises) =>
        \A i \in 1..Len(catalog) :
            catalog[i].rb_local_deleted # "True" => IdOf(i) \in ResultIds

(* C19: extract_playlists returns only playlists that have at least one
   non-deleted track with content: a playlist with no songs, or whose songs
   all lack content, is skipped, and a catalog of only such playlists yields
   the empty list. *)
C19_OnlyPlaylistsWithTracks ==
    /\ \A k \in 1..Len(result_playlists) :
          LET e == result_playlists[k]
          IN  /\ e.tracks # <<>>
              /\ Len(e.tracks) <= Cardinality(Contents(RecordOf(e)))
              /\ \A t \in Titles(e.tracks) :
                    \E c \in Contents(RecordOf(e)) :
                        /\ c.rb_local_deleted # "True"
                        /\ t = IF c.Title # <<>> THEN c.Title ELSE <<"Unknown">>
    /\ \A i \in 1..Len(catalog) :
          Contents(catalog[i]) = {} => IdOf(i) \notin ResultIds
    /\ (Returned /\ \A i \in 1..Len(catalog) : Contents(catalog[i]) = {}) =>
          result_playlists = <<>>

\* an extraction of playlists without songs and with a song without content
\* only, none of them deleted or malformed, returned the empty list
C19_Witness ==
    /\ Returned /\ result_playlists = <<>>
    /\ \A i \in 1..Len(catalog) :
          /\ ~catalog[i].is_folder /\ catalog[i].rb_local_deleted = "False"
          /\ ~catalog[i].raises
          /\ Contents(catalog[i]) = {}
    /\ \E i \in 1..Len(catalog) : catalog[i].Songs = <<>>
    /\ \E i \in 1..Len(catalog) : catalog[i].Songs = <<NoContentSong>>

(* C20: an error raised while extracting a single catalog record affects
   only that record, which contributes zero tracks or is excluded; all
   other records are still resolved and returned. *)
C20_RecordErrorsAreIsolated ==
    Returned =>
        \A i \in 1..Len(catalog) :
            ( /\ catalog[i].rb_local_deleted # "True"
              /\ ~catalog[i].raises
              /\ ReadsSongs(catalog[i])
              /\ HasUsableSong(catalog[i]) ) => IdOf(i) \in ResultIds

-----------------------------------------------------------------------------
(* PathConverter *)

\* the paths of the symbolic links a file system may hold, with their targets
LinkInsideToOutside == <<"/", "crates", "link">>   :> <<"/", "other", "t.mp3">>
LinkOutsideToInside == <<"/", "other", "in">>      :> <<"/", "crates", "A">>
LinkToRoot          == <<"/", "c">>                :> <<"/", "crates">>

\* the file systems explored (no symbolic link loops)
FileSystems ==
    { <<>>, LinkInsideToOutside, LinkOutsideToInside,
      LinkInsideToOutside @@ LinkOutsideToInside @@ LinkToRoot }

\* working directories of the process
WorkDirs == { <<"/", "crates">>, <<"/", "other">> }

\* crates_root as configured
RootConfigs == { <<"/", "crates">>, <<"/", "c">> }

\* track.file_path values passed to validate_and_convert_path
InputPaths ==
    { <<"/", "crates", "A", "B", "t.mp3">>,
      <<"/", "other", "t.mp3">>,
      <<"/", "crates", "link">>,
      <<"/", "other", "in", "t.mp3">>,
      <<"/", "crates", "A", "..", "..", "other", "t.mp3">>,
      <<"/", "c", "A", "t.mp3">>,
      <<"/", "crates">>,
      <<"A", "t.mp3">>,
      <<>> }

\* the destination root (jellyfin_root's default)
JellyfinRoot == <<"/data/music">>

\* resolved_path.relative_to(root) does not raise ValueError
IsRelativeTo(p, root) ==
    Len(p) >= Len(root) /\ SubSeq(p, 1, Len(root)) = root

\* resolved_path.relative_to(root).as_posix()
RelativePosix(p, root) ==
    IF Len(p) = Len(root) THEN <<".">>
    ELSE JoinWith("/", Components(SubSeq(p, Len(root) + 1, Len(p))))

\* f"{self.jellyfin_root}/{relative_path.as_posix()}"
JellyfinPath(p, root) == JellyfinRoot \o <<"/">> \o RelativePosix(p, root)

\* the reference of the converter's own invalid_paths set
SelfRef == "self"

\* PathConverter.validate_and_convert_path: the result and invalid_paths
\* after; raises says that file_path.resolve() raises
ValidateAndConvertPath(invalid_paths, file_path, raises) ==
    IF raises
    THEN [result |-> None, invalid_paths |-> invalid_paths]
    ELSE IF IsRelativeTo(Resolve(file_path), crates_root)
    THEN [result |-> JellyfinPath(Resolve(file_path), crates_root),
          invalid_paths |-> invalid_paths]
    ELSE [result |-> None,
          invalid_paths |-> invalid_paths \cup {StrOf(file_path)}]

\* faulty variant: the internal set itself is returned
GetInvalidPaths_NoCopy(h, ref) == [ref |-> SelfRef, heap |-> h]

\* PathConverter.get_invalid_paths: the reference returned and the heap
\* after; ref is the fresh reference of the copy
GetInvalidPaths(h, ref) == [ref |-> ref, heap |-> Put(h, ref, h[SelfRef])]

\* PathConverter.__init__ in a file system, a working directory and a root
InitPathWith(fss, cwds, roots) ==
    /\ symlinks \in fss
    /\ cwd \in cwds
    /\ \E r \in roots : crates_root = Realpath(<<"/">>, Tail(r))
    /\ heap = (SelfRef :> {})
    /\ held = {}
    /\ lastcall = NoCall
    /\ hashseed = [o \in HashInputs |-> 7]
    /\ IdleResolver /\ IdleExtract /\ IdleFlat /\ IdleMain

InitPath == InitPathWith(FileSystems, WorkDirs, RootConfigs)

\* converter.validate_and_convert_path(file_path)
Validate(file_path, raises) ==
    /\ LET v == ValidateAndConvertPath(heap[SelfRef], file_path, raises)
       IN  /\ heap' = [heap EXCEPT ![SelfRef] = v.invalid_paths]
           /\ lastcall' = [path |-> file_path, raised |-> raises, result |-> v.result]
    /\ UNCHANGED <<hashseed, symlinks, cwd, crates_root, held,
                   resolverVars, mainVars, extractVars, flatVars>>

NextPath == \E p \in InputPaths, raises \in BOOLEAN : Validate(p, raises)

SpecPath == InitPath /\ [][NextPath]_vars

\* the canonical form of the last call's path lies under the canonical root
LastCallInsideRoot ==
    /\ ~lastcall.raised
    /\ IsRelativeTo(Resolve(lastcall.path), crates_root)

(* C7: validate_and_convert_path returns "{jellyfin_root}/{relative path}"
   if and only if the canonical form of the path is a descendant of the
   canonical source root; otherwise it returns None and the original,
   unresolved path string is in the rejection set afterwards. *)
C7_ConvertedIffInsideRoot ==
    lastcall # NoCall =>
        IF LastCallInsideRoot
        THEN lastcall.result = JellyfinPath(Resolve(lastcall.path), crates_root)
        ELSE /\ lastcall.result = None
             /\ StrOf(lastcall.path) \in heap[SelfRef]

(* C9: when resolving the path raises, validate_and_convert_path returns
   None and the path is recorded in the rejection set. *)
C9_ErrorIsRecorded ==
    (lastcall # NoCall /\ lastcall.raised) =>
        /\ lastcall.result = None
        /\ StrOf(lastcall.path) \in heap[SelfRef]

-----------------------------------------------------------------------------
(* SpecSnapshot: a caller that validates paths, takes snapshots of the
   rejection set and changes the sets it was given *)

\* paths the caller validates: inside the root, outside, a link leading outside
SnapshotPaths ==
    { <<"/", "crates", "A", "B", "t.mp3">>,
      <<"/", "other", "t.mp3">>,
      <<"/", "crates", "link">> }

\* a value the caller adds to a set it was given (test_get_invalid_paths_returns_copy)
NewPath == <<"new_path">>

InitSnapshot ==
    InitPathWith({LinkInsideToOutside}, {<<"/", "crates">>}, {<<"/", "crates">>})

\* invalid_paths = converter.get_invalid_paths()
TakeSnapshot ==
    /\ Cardinality(DOMAIN heap) <= MaxSnapshots
    /\ LET g == GetInvalidPaths(heap, "copy" \o ToString(Cardinality(DOMAIN heap)))
       IN  /\ heap' = g.heap
           /\ held' = held \cup {g.ref}
    /\ UNCHANGED <<hashseed, symlinks, cwd, crates_root, lastcall,
                   resolverVars, mainVars, extractVars, flatVars>>

\* invalid_paths.add(x) on a set the caller was given
CallerAdds(ref, x) ==
    /\ ref \in held
    /\ heap' = [heap EXCEPT ![ref] = @ \cup {x}]
    /\ UNCHANGED <<hashseed, symlinks, cwd, crates_root, held, lastcall,
                   resolverVars, mainVars, extractVars, flatVars>>

\* invalid_paths.discard(x) on a set the caller was given
CallerDiscards(ref, x) ==
    /\ ref \in held
    /\ x \in heap[ref]
    /\ heap' = [heap EXCEPT ![ref] = @ \ {x}]
    /\ UNCHANGED <<hashseed, symlinks, cwd, crates_root, held, lastcall,
                   resolverVars, mainVars, extractVars, flatVars>>

\* the caller changes a set it was given
CallerMutates ==
    \E ref \in held :
        \/ CallerAdds(ref, NewPath)
        \/ \E x \in heap[ref] : CallerDiscards(ref, x)

NextSnapshot ==
    \/ \E p \in SnapshotPaths, raises \in BOOLEAN : Validate(p, raises)
    \/ TakeSnapshot
    \/ CallerMutates

SpecSnapshot == InitSnapshot /\ [][NextSnapshot]_vars

(* C8: the rejection set only grows over validate_and_convert_path and
   get_invalid_paths calls, get_invalid_paths returns a copy of it, and
   adding to or removing from a returned set leaves the rejection set, and
   so what later get_invalid_paths calls return, unchanged. *)
C8_SnapshotIsACopy ==
    [][ /\ heap[SelfRef] \subseteq heap'[SelfRef]
        /\ CallerMutates => heap'[SelfRef] = heap[SelfRef]
        /\ TakeSnapshot =>
              \E ref \in held' \ held : heap'[ref] = heap[SelfRef] ]_vars

\* the caller added to and removed from a snapshot of a non-empty rejection set
C8_Witness ==
    \E ref \in held :
        /\ NewPath \in heap[ref]
        /\ NewPath \notin heap[SelfRef]
        /\ \E x \in heap[SelfRef] : x \notin heap[ref]

-----------------------------------------------------------------------------
(* PlaylistGenerator.create_playlist_structure *)

\* PlaylistGenerator.output_dir
OutputDir == <<"out">>

\* tracks: inside the Crates directory, outside it, and one more inside
TrackIn  == [title |-> <<"T1">>, artist |-> <<"Ar">>,
             file_path |-> <<"/", "crates", "A", "B", "t.mp3">>]
TrackOut == [title |-> <<"T2">>, artist |-> <<"Ar">>,
             file_path |-> <<"/", "other", "t.mp3">>]
TrackIn2 == [title |-> <<"T3">>, artist |-> <<"Ar">>,
             file_path |-> <<"/", "crates", "A", "t.mp3">>]

\* playlist.tracks values: none, one passing, one failing, and a mix
TrackLists ==
    { <<>>, <<TrackIn>>, <<TrackOut>>, <<TrackOut, TrackIn, TrackIn2>> }

\* Playlist objects handed to the generator
GenPlaylists ==
    [name : { <<"Deep House">>, <<"Electronic", " - ", "Deep House">> },
     path : { <<>>, <<"Electronic">>, <<"Genre", "/", "Subgenre">> },
     tracks : TrackLists]

\* lists of at most MaxPlaylists playlists
PlaylistLists ==
    UNION { [1..n -> GenPlaylists] : n \in 0..MaxPlaylists }

\* lists in which no two playlists have the same (path, name)
DistinctPlaylistLists ==
    { l \in PlaylistLists :
        \A i, j \in 1..Len(l) :
            i # j => <<l[i].path, l[i].name>> # <<l[j].path, l[j].name>> }

\* str.replace(old, new) on single-character old
Replace(str, old, new) == [i \in 1..Len(str) |-> IF str[i] = old THEN new ELSE str[i]]

\* faulty variant: the path is used as it is
FlatNameRaw_NoSeparator(playlist) ==
    IF playlist.path # <<>>
    THEN playlist.path \o <<" - ">> \o playlist.name
    ELSE playlist.name

\* lines 437-443: flat_name_raw
FlatNameRaw(playlist) ==
    IF playlist.path # <<>>
    THEN Replace(playlist.path, "/", " - ") \o <<" - ">> \o playlist.name
    ELSE playlist.name

\* faulty variant: a failing track is kept, with the None it was given
RECURSIVE ConvertTracks_KeepAll(_, _, _, _)
ConvertTracks_KeepAll(tracks, valid, invalid_paths, last) ==
    IF tracks = <<>>
    THEN [valid_tracks |-> valid, invalid_paths |-> invalid_paths, last |-> last]
    ELSE LET track == Head(tracks)
             v == ValidateAndConvertPath(invalid_paths, track.file_path, FALSE)
         IN  ConvertTracks_KeepAll(
                 Tail(tracks),
                 Append(valid, [track |-> track, jellyfin_path |-> v.result]),
                 v.invalid_paths,
                 [path |-> track.file_path, raised |-> FALSE, result |-> v.result])

\* lines 464-469: valid_tracks, and the converter's invalid_paths and the
\* last validate_and_convert_path call after the loop over the tracks
RECURSIVE ConvertTracks(_, _, _, _)
ConvertTracks(tracks, valid, invalid_paths, last) ==
    IF tracks = <<>>
    THEN [valid_tracks |-> valid, invalid_paths |-> invalid_paths, last |-> last]
    ELSE LET track == Head(tracks)
             v == ValidateAndConvertPath(invalid_paths, track.file_path, FALSE)
         IN  ConvertTracks(
                 Tail(tracks),
                 IF v.result # None
                 THEN Append(valid, [track |-> track, jellyfin_path |-> v.result])
                 ELSE valid,
                 v.invalid_paths,
                 [path |-> track.file_path, raised |-> FALSE, result |-> v.result])

\* faulty variant: a playlist is written whatever its valid tracks
HasValidTracks_Always(valid_tracks) == TRUE

\* line 471: if valid_tracks
HasValidTracks(valid_tracks) == valid_tracks # <<>>

\* lines 486-489: the lines _write_m3u_file writes
RECURSIVE M3uLines(_)
M3uLines(valid_tracks) ==
    IF valid_tracks = <<>> THEN <<>>
    ELSE << <<"#EXTINF:-1,">> \o Head(valid_tracks).track.artist \o <<" - ">>
                \o Head(valid_tracks).track.title,
            Head(valid_tracks).jellyfin_path >>
         \o M3uLines(Tail(valid_tracks))

\* Path.parent of a path with at least one separator
ParentOf(p) ==
    SubSeq(p, 1, (CHOOSE k \in 1..Len(p) :
                     p[k] = "/" /\ \A j \in (k + 1)..Len(p) : p[j] # "/") - 1)

\* p lies below the directory root
Under(p, root) ==
    /\ Len(p) > Len(root) + 1
    /\ SubSeq(p, 1, Len(root)) = root
    /\ p[Len(root) + 1] = "/"

\* Path.mkdir(parents=True, exist_ok=True): p and its missing ancestors
Mkdir(ds, p) ==
    ds \cup { SubSeq(p, 1, k) : k \in {j \in 1..Len(p) : j = Len(p) \/ p[j + 1] = "/"} }

\* line 485: open(m3u_path, "w") raises: an I/O error of the environment
\* (write_fails), or the directory of the file does not exist
OpenRaises(ds, m3u_path, write_fails) ==
    write_fails \/ ParentOf(m3u_path) \notin ds

\* lines 482-491: _write_m3u_file; an exception is logged and swallowed
WriteM3uFile(fs, ds, m3u_path, valid_tracks, write_fails) ==
    IF OpenRaises(ds, m3u_path, write_fails) THEN fs
    ELSE Put(fs, m3u_path, << <<"#EXTM3U">> >> \o M3uLines(valid_tracks))

\* lines 446-448 and 451-460: m3u_path and full_path of a playlist
M3uPath(dir, base) == OutputDir \o <<"/">> \o dir \o base \o <<".m3u">>

\* the state create_playlist_structure starts in, after clean_output_directory
InitGenWith(lists, modes) ==
    /\ playlists \in lists
    /\ flat_mode \in modes
    /\ files = <<>>
    /\ dirs = {OutputDir}
    /\ gi = 1
    /\ flat_resolver = NewResolver
    /\ flat_names = <<>>
    /\ created_playlists = <<>>
    /\ write_errors = {} /\ run = 1 /\ prev = NoRun
    /\ symlinks = <<>> /\ cwd = <<"/", "other">> /\ crates_root = <<"/", "crates">>
    /\ heap = (SelfRef :> {}) /\ held = {} /\ lastcall = NoCall
    /\ hashseed = [o \in HashInputs |-> 7]
    /\ IdleResolver /\ IdleExtract /\ IdleMain

\* lines 433-478: one iteration of the loop over the playlists
GenStep(write_fails) ==
    /\ gi >= 1 /\ gi <= Len(playlists)
    /\ LET playlist == playlists[gi]
           g == GetUniqueName(flat_resolver, FlatNameRaw(playlist))
           made ==
               IF ~flat_mode /\ playlist.path # <<>>
               THEN Mkdir(dirs, OutputDir \o <<"/">> \o playlist.path)
               ELSE dirs
           m3u_path ==
               IF flat_mode THEN M3uPath(<<>>, g.name)
               ELSE IF playlist.path # <<>>
                    THEN M3uPath(playlist.path \o <<"/">>, playlist.name)
                    ELSE M3uPath(<<>>, playlist.name)
           full_path ==
               IF flat_mode THEN g.name
               ELSE IF playlist.path # <<>>
                    THEN playlist.path \o <<"/">> \o playlist.name
                    ELSE playlist.name
           c == ConvertTracks(playlist.tracks, <<>>, heap[SelfRef], lastcall)
       IN  /\ flat_resolver' = IF flat_mode THEN g.r ELSE flat_resolver
           /\ flat_names' = IF flat_mode THEN Append(flat_names, g.name) ELSE flat_names
           /\ dirs' = made
           /\ heap' = [heap EXCEPT ![SelfRef] = c.invalid_paths]
           /\ lastcall' = c.last
           /\ IF HasValidTracks(c.valid_tracks)
              THEN /\ files' = WriteM3uFile(files, made, m3u_path, c.valid_tracks,
                                            write_fails)
                   /\ created_playlists' = Put(created_playlists, full_path, m3u_path)
                   /\ write_errors' =
                          IF OpenRaises(made, m3u_path, write_fails)
                          THEN write_errors \cup {gi} ELSE write_errors
              ELSE /\ ~write_fails
                   /\ UNCHANGED <<files, created_playlists, write_errors>>
    /\ gi' = gi + 1
    /\ UNCHANGED <<hashseed, playlists, flat_mode, symlinks, cwd, crates_root, held,
                   run, prev, resolverVars, mainVars, extractVars>>

NextGen == \E write_fails \in BOOLEAN : GenStep(write_fails)

\* flat mode, on lists whose (path, name) pairs are pairwise distinct
InitFlat == InitGenWith(DistinctPlaylistLists, {TRUE})

SpecFlat == InitFlat /\ [][NextGen]_vars

\* both modes, on every list
InitGen == InitGenWith(PlaylistLists, BOOLEAN)

SpecGen == InitGen /\ [][NextGen]_vars

(* C10: in flat mode, within one create_playlist_structure call no two
   playlists of the input list receive the same final flat base name, even
   when their composite strings coincide: path "Electronic" with name
   "Deep House" and the root-level "Electronic - Deep House" get
   "Electronic - Deep House" and "Electronic - Deep House (1)". *)
C10_FlatNamesDistinct ==
    \A i, j \in 1..Len(flat_names) :
        i # j => flat_names[i] # flat_names[j]

\* the playlists the loop has processed
Processed == 1..(gi - 1)

\* the tracks of a playlist whose canonical path lies under the Crates root
PassingTracks(playlist) ==
    SelectSeq(playlist.tracks,
              LAMBDA t : IsRelativeTo(Resolve(t.file_path), crates_root))

\* the file the playlist at position i is to be written to, names being the
\* flat names given so far
M3uPathFor(names, i) ==
    IF flat_mode
    THEN OutputDir \o <<"/">> \o names[i] \o <<".m3u">>
    ELSE IF playlists[i].path = <<>>
    THEN OutputDir \o <<"/">> \o playlists[i].name \o <<".m3u">>
    ELSE OutputDir \o <<"/">> \o playlists[i].path \o <<"/">>
             \o playlists[i].name \o <<".m3u">>

\* the key the playlist at position i is to be reported under
KeyFor(names, i) ==
    IF flat_mode THEN names[i]
    ELSE IF playlists[i].path = <<>> THEN playlists[i].name
    ELSE playlists[i].path \o <<"/">> \o playlists[i].name

\* the same, of a playlist the loop has processed
ExpectedM3uPath(i) == M3uPathFor(flat_names, i)
ExpectedKey(i)     == KeyFor(flat_names, i)

\* the step taken is the loop iteration for the playlist at position gi
IterationTaken == gi \in 1..Len(playlists) /\ gi' = gi + 1

(* C11: when writing one playlist's file fails with an I/O error, that
   playlist is absent from the returned created-set, and the remaining
   playlists of the list are still generated: the loop goes on. *)
C11_FailedWriteIsExcluded ==
    [][ (IterationTaken /\ gi \in write_errors') =>
            /\ KeyFor(flat_names', gi) \notin DOMAIN created_playlists'
            /\ created_playlists' = created_playlists ]_vars

(* C12: a playlist all of whose tracks fail path validation, or that has no
   tracks, produces no playlist file and no entry in the created-set, in
   nested and in flat mode, and the other playlists are unaffected: what they
   produced is left as it was, and every processed playlist that has a
   passing track and no write error has its file. *)
C12_NoValidTracksNoOutput ==
    /\ [][ (IterationTaken /\ PassingTracks(playlists[gi]) = <<>>) =>
              /\ files' = files
              /\ created_playlists' = created_playlists
              /\ write_errors' = write_errors ]_vars
    /\ [](\A i \in Processed :
            (PassingTracks(playlists[i]) # <<>> /\ i \notin write_errors) =>
                /\ ExpectedM3uPath(i) \in DOMAIN files
                /\ ExpectedKey(i) \in DOMAIN created_playlists)

\* a call processed a playlist of failing tracks only and then one with a
\* passing track, and it is the second alone that left a file and a key
C12_Witness ==
    /\ gi = 3
    /\ playlists[1].tracks = <<TrackOut>>
    /\ PassingTracks(playlists[2]) # <<>>
    /\ DOMAIN files = {ExpectedM3uPath(2)}
    /\ DOMAIN created_playlists = {ExpectedKey(2)}

\* the lines a playlist's file is to hold
ExpectedLines(playlist) ==
    LET ok == PassingTracks(playlist)
    IN  [k \in 1..(2 * Len(ok) + 1) |->
            IF k = 1 THEN <<"#EXTM3U">>
            ELSE IF k % 2 = 0
            THEN <<"#EXTINF:-1,">> \o ok[k \div 2].artist \o <<" - ">>
                     \o ok[k \div 2].title
            ELSE JellyfinRoot \o <<"/">>
                     \o RelativePosix(Resolve(ok[k \div 2].file_path), crates_root)]

(* C13: every written playlist file consists of the line #EXTM3U followed,
   for exactly the tracks of the playlist that pass path validation and in
   their original order, by the pair of lines "#EXTINF:-1,{artist} - {title}"
   and the converted destination path; failing tracks contribute no line. *)
C13_FileHoldsPassingTracksInOrder ==
    [][ \A p \in DOMAIN files' :
            (p \notin DOMAIN files \/ files'[p] # files[p]) =>
                /\ IterationTaken
                /\ p = M3uPathFor(flat_names', gi)
                /\ files'[p] = ExpectedLines(playlists[gi]) ]_vars

\* the file of a playlist with a failing track followed by two passing ones
C13_Witness ==
    \E i \in Processed :
        /\ playlists[i].tracks = <<TrackOut, TrackIn, TrackIn2>>
        /\ ExpectedM3uPath(i) \in DOMAIN files
        /\ Len(files[ExpectedM3uPath(i)]) = 5

(* C14: in nested mode a playlist with non-empty path is written at
   {output_root}/{path}/{name}.m3u and reported under the key
   "{path}/{name}", a root-level playlist is written at
   {output_root}/{name}.m3u and reported under the key "{name}", and the
   created-set maps each key to the path of a file that exists. *)
C14_NestedLayout ==
    ~flat_mode =>
        /\ \A i \in Processed :
              PassingTracks(playlists[i]) # <<>> =>
                  /\ ExpectedKey(i) \in DOMAIN created_playlists
                  /\ created_playlists[ExpectedKey(i)] = ExpectedM3uPath(i)
        /\ \A k \in DOMAIN created_playlists :
              created_playlists[k] \in DOMAIN files

\* str.split("/"): the components of a playlist path
RECURSIVE SplitPath(_, _)
SplitPath(path, part) ==
    IF path = <<>> THEN (IF part = <<>> THEN <<>> ELSE <<part>>)
    ELSE IF Head(path) = "/" THEN <<part>> \o SplitPath(Tail(path), <<>>)
    ELSE SplitPath(Tail(path), Append(part, Head(path)))

\* the path components of a playlist and its name, joined by " - "
Composite(playlist) ==
    JoinWith(" - ", SplitPath(playlist.path, <<>>) \o <<playlist.name>>)

\* the names one resolver gives to a list of names, in order
RECURSIVE ResolveAll(_, _)
ResolveAll(r, names) ==
    IF names = <<>> THEN <<>>
    ELSE LET g == GetUniqueName(r, Head(names))
         IN  <<g.name>> \o ResolveAll(g.r, Tail(names))

(* C15: in flat mode every playlist file is written directly under the
   output root and no subdirectory is created, at any nesting depth; the
   base name of the file and the reported key are the path components joined
   by " - " followed by " - {name}" (just {name} when the path is empty),
   passed through the one resolver shared by the playlists of the call. *)
C15_FlatLayout ==
    flat_mode =>
        /\ dirs = {OutputDir}
        /\ \A p \in DOMAIN files : ParentOf(p) = OutputDir
        /\ flat_names =
               ResolveAll(NewResolver, [i \in Processed |-> Composite(playlists[i])])
        /\ DOMAIN created_playlists =
               {flat_names[i] : i \in {j \in Processed :
                                          PassingTracks(playlists[j]) # <<>>}}
        /\ \A k \in DOMAIN created_playlists :
               created_playlists[k] = OutputDir \o <<"/">> \o k \o <<".m3u">>
        /\ \A i \in Processed :
               (PassingTracks(playlists[i]) # <<>> /\ i \notin write_errors) =>
                   (OutputDir \o <<"/">> \o flat_names[i] \o <<".m3u">>) \in DOMAIN files

\* a playlist two folders deep and a root-level one were written in flat mode
C15_Witness ==
    /\ flat_mode /\ gi = 3
    /\ playlists[1].path = <<"Genre", "/", "Subgenre">>
    /\ playlists[2].path = <<>>
    /\ Cardinality(DOMAIN files) = 2
    /\ <<"out", "/", "Genre", " - ", "Subgenre", " - ", "Deep House", ".m3u">>
           \in DOMAIN files

-----------------------------------------------------------------------------
(* SpecRun: main's clean_output_directory and create_playlist_structure on
   an output directory in any prior state, and the same once more *)

\* what a file left by something else holds
StaleLines == << <<"stale">> >>

\* a file outside the output directory
OutsideFile == <<"keep.txt">>

\* the file system before the first run: no output directory, an empty one,
\* the files of test_clean_output_directory_removes_existing_files, and the
\* files of an earlier run
StaleOutputs ==
    { [files |-> <<>>, dirs |-> {}],
      [files |-> <<>>, dirs |-> {OutputDir}],
      [files |-> (<<"out", "/", "old_playlist", ".m3u">> :> StaleLines)
                 @@ (<<"out", "/", "subfolder", "/", "another_file.txt">> :> StaleLines),
       dirs  |-> {OutputDir, <<"out", "/", "subfolder">>}],
      [files |-> (OutsideFile :> StaleLines)
                 @@ (<<"out", "/", "Deep House", ".m3u">> :> StaleLines)
                 @@ (<<"out", "/", "Electronic", "/", "Deep House", ".m3u">> :> StaleLines)
                 @@ (<<"out", "/", "Electronic", " - ", "Deep House", ".m3u">> :> StaleLines),
       dirs  |-> {OutputDir, <<"out", "/", "Electronic">>}] }

\* the lists handed to the runs: one track each, at the root or one folder deep
RunLists ==
    { l \in PlaylistLists :
        \A i \in 1..Len(l) :
            /\ l[i].tracks \in { <<TrackIn>>, <<TrackOut>> }
            /\ l[i].path \in { <<>>, <<"Electronic">> } }

\* faulty variant: the directory is made, its content is left
clean_output_directory_NoRmtree(fs, ds) ==
    [files |-> fs, dirs |-> ds \cup {OutputDir}]

\* lines 415-421: clean_output_directory: the files and directories after
clean_output_directory(fs, ds) ==
    IF OutputDir \in ds
    THEN [files |-> [p \in {q \in DOMAIN fs : ~Under(q, OutputDir)} |-> fs[p]],
          dirs  |-> {d \in ds : ~Under(d, OutputDir)}]
    ELSE [files |-> fs, dirs |-> ds \cup {OutputDir}]

InitRun ==
    /\ playlists \in RunLists
    /\ flat_mode \in BOOLEAN
    /\ \E o \in StaleOutputs : files = o.files /\ dirs = o.dirs
    /\ gi = 0
    /\ flat_resolver = NewResolver
    /\ flat_names = <<>>
    /\ created_playlists = <<>>
    /\ write_errors = {} /\ run = 1 /\ prev = NoRun
    /\ symlinks = <<>> /\ cwd = <<"/", "other">> /\ crates_root = <<"/", "crates">>
    /\ heap = (SelfRef :> {}) /\ held = {} /\ lastcall = NoCall
    /\ hashseed = [o \in HashInputs |-> 7]
    /\ IdleResolver /\ IdleExtract /\ IdleMain

\* line 650: playlist_generator.clean_output_directory()
CleanOutputDirectory ==
    /\ gi = 0
    /\ LET c == clean_output_directory(files, dirs)
       IN  files' = c.files /\ dirs' = c.dirs
    /\ gi' = 1
    /\ UNCHANGED <<hashseed, playlists, flat_mode, flat_resolver, flat_names,
                   created_playlists, write_errors, run, prev,
                   pathVars, resolverVars, mainVars, extractVars>>

\* main is run a second time on what the first run left: a new
\* PathConverter, a new PlaylistGenerator, the same playlists
RunAgain ==
    /\ gi > Len(playlists) /\ run = 1
    /\ prev' = [files |-> files, created |-> created_playlists, errors |-> write_errors]
    /\ run' = run + 1
    /\ gi' = 0
    /\ flat_resolver' = NewResolver /\ flat_names' = <<>>
    /\ created_playlists' = <<>> /\ write_errors' = {}
    /\ heap' = (SelfRef :> {}) /\ lastcall' = NoCall
    /\ UNCHANGED <<hashseed, playlists, flat_mode, files, dirs, symlinks, cwd,
                   crates_root, held, resolverVars, mainVars, extractVars>>

NextRun ==
    \/ CleanOutputDirectory
    \/ NextGen
    \/ RunAgain

SpecRun == InitRun /\ [][NextRun]_vars

\* create_playlist_structure has returned
RunOver == gi > Len(playlists)

\* the files below the output directory
OutputFiles == {p \in DOMAIN files : Under(p, OutputDir)}

(* C16: clean_output_directory followed by create_playlist_structure is
   idempotent: whatever the output directory contained before, afterwards
   it contains exactly the files of this run, and running the pair again
   with the same playlists, the same path validity and the same I/O outcomes
   reproduces the same files and the same created-set. *)
C16_CleanThenCreateIdempotent ==
    RunOver =>
        /\ OutputFiles =
               {ExpectedM3uPath(i) :
                    i \in {j \in Processed : /\ PassingTracks(playlists[j]) # <<>>
                                             /\ j \notin write_errors}}
        /\ \A p \in OutputFiles : files[p] # StaleLines
        /\ (run = 2 /\ write_errors = prev.errors) =>
               /\ files = prev.files
               /\ created_playlists = prev.created

\* the second run is over, on a directory that held files of an earlier run
\* at the very paths this run writes, and nothing but this run's files is left
C16_Witness ==
    /\ RunOver /\ run = 2 /\ write_errors = {} /\ prev.errors = {}
    /\ OutsideFile \in DOMAIN files
    /\ Len(playlists) = 2
    /\ Cardinality(OutputFiles) = 1
    /\ OutputFiles \subseteq DOMAIN prev.files

-----------------------------------------------------------------------------
(* SpecSmart: _extract_from_database on catalogs that hold smart playlists
   (Attribute 4, with a SmartList query definition) next to folders and
   regular playlists *)

\* line 227: rb_playlist.Attribute in (1, 4)
IsFolder(attribute) == attribute \in {1, 4}

\* rows as the test suite builds them: a regular playlist with a song, a
\* folder, and smart playlists whose SmartList is None, is not parseable, or
\* is a query
SmartKinds ==
    { [Attribute |-> 0, SmartList |-> "None",        Songs |-> <<SongOf(GoodContent)>>],
      [Attribute |-> 1, SmartList |-> "None",        Songs |-> <<>>],
      [Attribute |-> 4, SmartList |-> "None",        Songs |-> <<>>],
      [Attribute |-> 4, SmartList |-> "invalid xml", Songs |-> <<>>],
      [Attribute |-> 4, SmartList |-> "query",       Songs |-> <<>>] }

\* lines 224-230: the entry of playlists_by_id made from a row
SmartRecord(k, p) ==
    [ParentID |-> p, Name |-> <<"a">>,
     Attribute |-> k.Attribute, SmartList |-> k.SmartList,
     is_folder |-> IsFolder(k.Attribute),
     rb_local_deleted |-> "False", Songs |-> k.Songs, raises |-> FALSE]

SmartCatalogs ==
    [1..NumNodes -> { SmartRecord(k, p) : k \in SmartKinds,
                                          p \in {RootID, IdOf(1), MissingID} }]

InitSmart == InitExtractWith(SmartCatalogs)

SpecSmart == InitSmart /\ [][NextExtract]_vars

\* the record is a smart playlist
IsSmartPlaylist(d) == d.Attribute = 4

(* C21: a smart playlist record is returned by the database extraction as a
   playlist; when its query definition is absent or cannot be parsed it is
   still returned, with zero tracks, and the rest of the extraction is not
   affected: the regular playlists with a track are returned as well. *)
C21_SmartPlaylistIsReturned ==
    Returned =>
        \A i \in 1..Len(catalog) :
            /\ IsSmartPlaylist(catalog[i]) =>
                  \E k \in 1..Len(result_playlists) :
                      /\ result_playlists[k].id = IdOf(i)
                      /\ catalog[i].SmartList \in {"None", "invalid xml"} =>
                            result_playlists[k].tracks = <<>>
            /\ catalog[i].Attribute = 0 => IdOf(i) \in ResultIds

-----------------------------------------------------------------------------
(* SpecTwice: the database extraction of one catalog snapshot in two program
   executions, each with its own str hash and fresh resolvers *)

\* names: a plain one, and one that sanitizes to the empty string
TwiceNames == { <<"a">>, <<"/">> }

TwiceCatalogs ==
    [1..NumNodes -> [ParentID : {RootID, IdOf(1)},
                     Name : TwiceNames,
                     is_folder : BOOLEAN,
                     rb_local_deleted : {"False"},
                     Songs : { <<SongOf(GoodContent)>> },
                     raises : {FALSE}]]

\* the first execution: the interpreter draws the str hash at start-up
InitTwice ==
    /\ hashseed \in [HashInputs -> HashValues]
    /\ source = "db"
    /\ catalog \in TwiceCatalogs
    /\ name_resolvers = <<>>
    /\ stack = <<>> /\ cur = NoFrame /\ ret = <<>>
    /\ pc = "first" /\ idx = 1 /\ steps = 0
    /\ result_playlists = <<>> /\ reentered = {} /\ path_info = <<>>
    /\ IdleResolver /\ IdlePath /\ IdleFlat /\ IdleMain

\* the program is started again on the same catalog: a new process with its
\* own str hash, a new RekordboxExtractor and new resolvers
NewExecution ==
    /\ pc = "done" /\ execution = 1
    /\ earlier' = result_playlists
    /\ execution' = 2
    /\ hashseed' \in [HashInputs -> HashValues]
    /\ name_resolvers' = <<>>
    /\ stack' = <<>> /\ cur' = NoFrame /\ ret' = <<>>
    /\ pc' = "first" /\ idx' = 1 /\ steps' = 0
    /\ result_playlists' = <<>> /\ reentered' = {} /\ path_info' = <<>>
    /\ UNCHANGED <<source, catalog, command, dry_run, check_only, smb_config, mpc,
                   exit_code, report, nas, remote_dirs, all_tracks, missing_files,
                   si, synced_files, resolverVars, pathVars, flatVars>>

NextTwice ==
    \/ NextExtract
    \/ NewExecution

SpecTwice == InitTwice /\ [][NextTwice]_vars

\* the (path, name) assignments of a result, in order
Assignments(result) ==
    [k \in 1..Len(result) |-> [id |-> result[k].id, path |-> result[k].path,
                               name |-> result[k].name]]

(* C22: resolution is deterministic: two runs over the same catalog snapshot
   in the same iteration order, with two fresh resolver sets and possibly in
   two separate program executions, assign the identical (path, name) to
   every playlist, also to a playlist whose name sanitizes to the empty
   string and takes the playlist_<n> fallback. *)
C22_SameAssignmentsInBothRuns ==
    (execution = 2 /\ pc = "done") =>
        Assignments(result_playlists) = Assignments(earlier)

-----------------------------------------------------------------------------
(* SpecMain: main (rekordbox_to_jellyfin.py) and the create-playlists and
   sync-files commands (cli.py), from the configuration check to the exit:
   connect, extract_playlists, then a dry run, or clean_output_directory and
   create_playlist_structure, and check_and_sync_files *)

optionVars == <<command, dry_run, check_only, smb_config, execution, earlier>>
walkVars   == <<source, catalog, name_resolvers, stack, cur, ret, idx, steps,
                result_playlists, reentered, path_info>>
outputVars == <<flat_mode, files, dirs, flat_resolver, flat_names,
                created_playlists, write_errors, run, prev>>

\* a content row outside the Crates directory
OutsideContent == [rb_local_deleted |-> "False", Title |-> <<"T4">>,
                   Artist |-> <<"Ar">>,
                   FolderPath |-> <<"/", "other", "/", "t.mp3">>]

\* the rows of the catalogs the commands run on: a root-level playlist with a
\* track inside and one outside the Crates directory, a playlist whose parent
\* is missing, and a playlist without songs
MainRecords ==
    { [ParentID |-> RootID, Name |-> <<"a">>, is_folder |-> FALSE,
       rb_local_deleted |-> "False",
       Songs |-> <<SongOf(GoodContent), SongOf(OutsideContent)>>, raises |-> FALSE],
      [ParentID |-> MissingID, Name |-> <<"b">>, is_folder |-> FALSE,
       rb_local_deleted |-> "False",
       Songs |-> <<SongOf(UnflaggedContent)>>, raises |-> FALSE],
      [ParentID |-> RootID, Name |-> <<"c">>, is_folder |-> FALSE,
       rb_local_deleted |-> "False", Songs |-> <<>>, raises |-> FALSE] }

MainCatalogs == [1..NumNodes -> MainRecords]

\* the commands with their options
Commands ==
    { [command |-> "main", dry_run |-> FALSE, check_only |-> FALSE] }
    \cup { [command |-> "create-playlists", dry_run |-> d, check_only |-> FALSE] :
             d \in BOOLEAN }
    \cup { [command |-> "sync-files", dry_run |-> FALSE, check_only |-> c] :
             c \in BOOLEAN }

\* the share
SmbRoot == <<"//server/share">>

\* lines 541-545: _jellyfin_to_smb_path
SmbPath(jellyfin_path) ==
    SmbRoot \o <<"/">> \o
        (IF Len(jellyfin_path) >= 2 /\ SubSeq(jellyfin_path, 1, 2) = JellyfinRoot \o <<"/">>
         THEN SubSeq(jellyfin_path, 3, Len(jellyfin_path))
         ELSE jellyfin_path)

\* what a file that was on the share before the run holds
NasFile == <<"on the share">>

\* the share before the run: it holds the first track of the first record kind
NasBefore ==
    SmbPath(<<"/data/music", "/", "A", "/", "B", "/", "t.mp3">>) :> NasFile

\* lines 547-553: _file_exists_on_nas
FileExistsOnNas(share, smb_path) == smb_path \in DOMAIN share

\* lines 113-129: RekordboxExtractor.connect returns True
Connected(src) == src # "none"

\* lines 137-140: the extraction extract_playlists starts
StartOf(src) == IF src = "db" THEN "first" ELSE "xml"

\* faulty variant: an empty extraction is not noticed
NoPlaylists_Never(lists) == FALSE

\* line 645 (cli.py 130, 223): if not playlists
NoPlaylists(lists) == lists = <<>>

\* faulty variant: the --dry-run flag is not looked at
DryRun_Ignored(flag) == FALSE

\* cli.py 116, 136: if dry_run
DryRun(flag) == flag

\* the Playlist objects extract_playlists returns
PlaylistsOf(result) ==
    [k \in 1..Len(result) |->
        [name |-> result[k].name, path |-> result[k].path, tracks |-> result[k].tracks]]

\* lines 664-666 (cli.py 227-229): all_tracks
RECURSIVE AllTracks(_)
AllTracks(lists) ==
    IF lists = <<>> THEN <<>> ELSE Head(lists).tracks \o AllTracks(Tail(lists))

InitMainWith(commands, sources, catalogs, cwds) ==
    /\ \E c \in commands :
          command = c.command /\ dry_run = c.dry_run /\ check_only = c.check_only
    /\ smb_config \in BOOLEAN
    /\ mpc = "config" /\ exit_code = -1 /\ report = <<>>
    /\ nas = NasBefore /\ remote_dirs = {} /\ all_tracks = <<>>
    /\ missing_files = <<>> /\ si = 0 /\ synced_files = 0
    /\ execution = 1 /\ earlier = <<>>
    /\ hashseed = [o \in HashInputs |-> 7]
    /\ source \in sources
    /\ catalog \in catalogs
    /\ name_resolvers = <<>>
    /\ stack = <<>> /\ cur = NoFrame /\ ret = <<>>
    /\ pc = "idle" /\ idx = 1 /\ steps = 0
    /\ result_playlists = <<>> /\ reentered = {} /\ path_info = <<>>
    /\ playlists = <<>> /\ flat_mode = FALSE
    /\ \E o \in StaleOutputs : files = o.files /\ dirs = o.dirs
    /\ gi = -1
    /\ flat_resolver = NewResolver /\ flat_names = <<>>
    /\ created_playlists = <<>>
    /\ write_errors = {} /\ run = 1 /\ prev = NoRun
    /\ symlinks = <<>> /\ cwd \in cwds /\ crates_root = <<"/", "crates">>
    /\ heap = (SelfRef :> {}) /\ held = {} /\ lastcall = NoCall
    /\ IdleResolver

InitMain ==
    InitMainWith(Commands, {"db", "xml", "none"}, MainCatalogs, { <<"/", "other">> })

\* return code / sys.exit(code)
Exit(code) == mpc' = "exit" /\ exit_code' = code

\* lines 612-618 (cli.py 49-59, 99, 179-185): the required configuration is
\* validated; sync-files also needs the complete SMB configuration
LoadConfig(valid) ==
    /\ mpc = "config"
    /\ IF ~valid \/ (command = "sync-files" /\ ~smb_config)
       THEN Exit(1)
       ELSE mpc' = "connect" /\ UNCHANGED exit_code
    /\ UNCHANGED <<hashseed, optionVars, report, nas, remote_dirs, all_tracks,
                   missing_files, si, synced_files, extractVars, resolverVars,
                   pathVars, flatVars>>

\* lines 639-641 (cli.py 121-123, 206-208): extractor.connect(); main and
\* create-playlists go on to extract_playlists, sync-files to the share
ConnectRekordbox ==
    /\ mpc = "connect"
    /\ IF ~Connected(source)
       THEN Exit(1) /\ UNCHANGED pc
       ELSE IF command = "sync-files"
       THEN mpc' = "nas" /\ UNCHANGED <<exit_code, pc>>
       ELSE mpc' = "extract" /\ pc' = StartOf(source) /\ UNCHANGED exit_code
    /\ UNCHANGED <<hashseed, optionVars, report, nas, remote_dirs, all_tracks,
                   missing_files, si, synced_files, walkVars, resolverVars,
                   pathVars, flatVars>>

\* cli.py 214-216: sync-files connects to the share before it extracts;
\* lines 663-666: main does after the playlists are generated, if the SMB
\* configuration is complete, and skips the sync otherwise
ConnectNas(ok) ==
    /\ mpc = "nas"
    /\ IF command = "sync-files"
       THEN IF ok
            THEN /\ mpc' = "extract" /\ pc' = StartOf(source)
                 /\ UNCHANGED <<exit_code, all_tracks, si>>
            ELSE Exit(1) /\ UNCHANGED <<pc, all_tracks, si>>
       ELSE IF smb_config /\ ok
            THEN /\ mpc' = "check" /\ all_tracks' = AllTracks(playlists) /\ si' = 1
                 /\ UNCHANGED <<exit_code, pc>>
            ELSE Exit(0) /\ UNCHANGED <<pc, all_tracks, si>>
    /\ UNCHANGED <<hashseed, optionVars, report, nas, remote_dirs, missing_files,
                   synced_files, walkVars, resolverVars, pathVars, flatVars>>

\* lines 644-650 (cli.py 129-153, 222-237): extract_playlists has returned;
\* without playlists the command exits, otherwise it goes on to the dry run,
\* to clean_output_directory, or to check_and_sync_files
ExtractionReturns ==
    /\ mpc = "extract" /\ pc = "done"
    /\ LET lists == PlaylistsOf(result_playlists)
       IN  /\ playlists' = lists
           /\ IF NoPlaylists(lists)
              THEN Exit(1) /\ UNCHANGED <<gi, si, all_tracks>>
              ELSE IF command = "sync-files"
              THEN /\ mpc' = "check" /\ all_tracks' = AllTracks(lists) /\ si' = 1
                   /\ UNCHANGED <<exit_code, gi>>
              ELSE IF DryRun(dry_run)
              THEN /\ mpc' = "dry" /\ si' = 1
                   /\ UNCHANGED <<exit_code, gi, all_tracks>>
              ELSE /\ mpc' = "generate" /\ gi' = 0
                   /\ UNCHANGED <<exit_code, si, all_tracks>>
    /\ UNCHANGED <<hashseed, optionVars, report, nas, remote_dirs, missing_files,
                   synced_files, extractVars, resolverVars, pathVars, outputVars>>

\* lines 651-660 (cli.py 156-169): create_playlist_structure has returned;
\* create-playlists is over, main goes on to the share
GenerationReturns ==
    /\ mpc = "generate" /\ gi > Len(playlists)
    /\ IF command = "main"
       THEN mpc' = "nas" /\ UNCHANGED exit_code
       ELSE Exit(0)
    /\ UNCHANGED <<hashseed, optionVars, report, nas, remote_dirs, all_tracks,
                   missing_files, si, synced_files, extractVars, resolverVars,
                   pathVars, flatVars>>

\* cli.py 139-147: one playlist of the dry run: its tracks are validated
\* and counted
DryRunStep ==
    /\ mpc = "dry" /\ si <= Len(playlists)
    /\ LET playlist == playlists[si]
           c == ConvertTracks(playlist.tracks, <<>>, heap[SelfRef], lastcall)
       IN  /\ report' = Append(report, [name |-> playlist.name,
                                        valid_tracks |-> Len(c.valid_tracks)])
           /\ heap' = [heap EXCEPT ![SelfRef] = c.invalid_paths]
           /\ lastcall' = c.last
    /\ si' = si + 1
    /\ UNCHANGED <<hashseed, optionVars, mpc, exit_code, nas, remote_dirs, all_tracks,
                   missing_files, synced_files, symlinks, cwd, crates_root, held,
                   extractVars, resolverVars, flatVars>>

\* cli.py 149-169: the dry run is over
DryRunEnd ==
    /\ mpc = "dry" /\ si > Len(playlists)
    /\ Exit(0)
    /\ UNCHANGED <<hashseed, optionVars, report, nas, remote_dirs, all_tracks,
                   missing_files, si, synced_files, extractVars, resolverVars,
                   pathVars, flatVars>>

\* lines 521-530: check_and_sync_files, one track of the first loop
CheckStep ==
    /\ mpc = "check" /\ si <= Len(all_tracks)
    /\ LET track == all_tracks[si]
           v == ValidateAndConvertPath(heap[SelfRef], track.file_path, FALSE)
           smb_path == SmbPath(v.result)
       IN  /\ heap' = [heap EXCEPT ![SelfRef] = v.invalid_paths]
           /\ lastcall' = [path |-> track.file_path, raised |-> FALSE,
                           result |-> v.result]
           /\ missing_files' =
                  IF v.result # None /\ ~FileExistsOnNas(nas, smb_path)
                  THEN Append(missing_files, [track |-> track, smb_path |-> smb_path])
                  ELSE missing_files
    /\ si' = si + 1
    /\ UNCHANGED <<hashseed, optionVars, mpc, exit_code, report, nas, remote_dirs,
                   all_tracks, synced_files, symlinks, cwd, crates_root, held,
                   extractVars, resolverVars, flatVars>>

\* lines 532-535: the first loop is over
CheckEnd ==
    /\ mpc = "check" /\ si > Len(all_tracks)
    /\ mpc' = "sync" /\ si' = 1
    /\ UNCHANGED <<hashseed, optionVars, exit_code, report, nas, remote_dirs,
                   all_tracks, missing_files, synced_files, extractVars,
                   resolverVars, pathVars, flatVars>>

\* lines 535-537 and 555-579: one missing file of the second loop:
\* _sync_file_to_nas makes the remote directory and copies the file; an
\* exception of the copy (copy_fails) is logged and the file is not counted
SyncStep(copy_fails) ==
    /\ mpc = "sync" /\ si <= Len(missing_files)
    /\ LET missing == missing_files[si]
       IN  /\ remote_dirs' = remote_dirs \cup {ParentOf(missing.smb_path)}
           /\ IF copy_fails
              THEN UNCHANGED <<nas, synced_files>>
              ELSE /\ nas' = Put(nas, missing.smb_path, missing.track.file_path)
                   /\ synced_files' = synced_files + 1
    /\ si' = si + 1
    /\ UNCHANGED <<hashseed, optionVars, mpc, exit_code, report, all_tracks,
                   missing_files, extractVars, resolverVars, pathVars, flatVars>>

\* line 539 and 685 (cli.py 238-248): check_and_sync_files has returned
SyncEnd ==
    /\ mpc = "sync" /\ si > Len(missing_files)
    /\ Exit(0)
    /\ UNCHANGED <<hashseed, optionVars, report, nas, remote_dirs, all_tracks,
                   missing_files, si, synced_files, extractVars, resolverVars,
                   pathVars, flatVars>>

NextMain ==
    \/ \E valid \in BOOLEAN : LoadConfig(valid)
    \/ ConnectRekordbox
    \/ \E ok \in BOOLEAN : ConnectNas(ok)
    \/ NextExtract
    \/ NextXml
    \/ ExtractionReturns
    \/ CleanOutputDirectory
    \/ NextGen
    \/ GenerationReturns
    \/ DryRunStep
    \/ DryRunEnd
    \/ CheckStep
    \/ CheckEnd
    \/ \E copy_fails \in BOOLEAN : SyncStep(copy_fails)
    \/ SyncEnd

SpecMain == InitMain /\ [][NextMain]_vars

\* connecting to the catalog has just failed, or the extraction has just
\* returned no playlist
CatalogFailure ==
    \/ mpc = "connect" /\ source = "none"
    \/ mpc = "extract" /\ pc = "done" /\ result_playlists = <<>>

\* a step that calls clean_output_directory, one that removes something from
\* the output directory, one that writes a file or makes a directory below
\* it, and one that copies to the share or makes a directory on it
ClearStep == gi = 0 /\ gi' = 1
RemoveStep ==
    \/ \E p \in DOMAIN files : Under(p, OutputDir) /\ p \notin DOMAIN files'
    \/ \E d \in dirs : Under(d, OutputDir) /\ d \notin dirs'
WriteStep ==
    \/ \E p \in DOMAIN files' :
          Under(p, OutputDir) /\ (p \notin DOMAIN files \/ files'[p] # files[p])
    \/ \E d \in dirs' : Under(d, OutputDir) /\ d \notin dirs
CopyStep == nas' # nas \/ remote_dirs' # remote_dirs

\* check_and_sync_files is entered
SyncStarts == mpc # "check" /\ mpc' = "check"

(* C23: when connecting to the catalog fails or extraction yields zero
   playlists, the run (main, create-playlists, sync-files) ends with a
   non-zero exit and from then on never clears the output directory, writes
   a playlist file or copies a file to the NAS; in every run the output
   directory is cleared only after a successful non-empty extraction and
   before any playlist file is written, and NAS sync starts only after
   playlist generation has finished. *)
C23_FailureStopsTheRun ==
    [][ /\ CatalogFailure => (mpc' = "exit" /\ exit_code' = 1)
        /\ exit_code # -1 =>
              (exit_code' = exit_code /\ ~ClearStep /\ ~RemoveStep /\ ~WriteStep
               /\ ~CopyStep)
        /\ (ClearStep \/ RemoveStep) =>
              /\ ClearStep
              /\ pc = "done" /\ result_playlists # <<>>
              /\ Connected(source)
              /\ created_playlists = <<>> /\ write_errors = {}
        /\ WriteStep =>
              gi >= 1 /\ playlists # <<>> /\ playlists = PlaylistsOf(result_playlists)
        /\ (SyncStarts \/ CopyStep) =>
              /\ playlists' # <<>>
              /\ IF command = "main" THEN gi' > Len(playlists') ELSE gi' = -1 ]_vars

\* main has exited with 1 after a database extraction that returned no
\* playlist, and the files an earlier run left in the output directory and
\* the share are as they were
C23_Witness ==
    /\ command = "main" /\ mpc = "exit" /\ exit_code = 1
    /\ source = "db" /\ pc = "done" /\ result_playlists = <<>>
    /\ <<"out", "/", "old_playlist", ".m3u">> \in DOMAIN files
    /\ nas = NasBefore /\ created_playlists = <<>>

(* C24: sync-files with --check-only only checks for missing files: no file
   is copied to the NAS and no remote directory is created during that
   command, whatever files are missing. *)
C24_CheckOnlyCopiesNothing ==
    [][ (command = "sync-files" /\ check_only) => ~CopyStep ]_vars

\* the tracks of a list of playlists that fail validation, as path strings
RejectedPaths(lists) ==
    UNION { { StrOf(lists[k].tracks[j].file_path) :
                j \in { i \in 1..Len(lists[k].tracks) :
                          ~IsRelativeTo(Resolve(lists[k].tracks[i].file_path),
                                        crates_root) } } :
            k \in 1..Len(lists) }

(* C25: create-playlists with --dry-run creates no files: no
   PlaylistGenerator is constructed, the output directory is neither
   cleared nor written, and the command still reports per playlist how many
   tracks pass path validation and still collects the rejected paths. *)
C25_DryRunCreatesNoFiles ==
    /\ [][ (command = "create-playlists" /\ dry_run) =>
              /\ ~ClearStep /\ ~RemoveStep /\ ~WriteStep
              /\ files' = files /\ dirs' = dirs
              /\ gi' = -1 /\ created_playlists' = <<>> ]_vars
    /\ []( (command = "create-playlists" /\ dry_run /\ mpc = "exit" /\ pc = "done"
            /\ result_playlists # <<>>) =>
              /\ exit_code = 0
              /\ Len(report) = Len(playlists)
              /\ \A k \in 1..Len(playlists) :
                    /\ report[k].name = playlists[k].name
                    /\ report[k].valid_tracks = Len(PassingTracks(playlists[k]))
              /\ heap[SelfRef] = RejectedPaths(playlists) )

\* a dry run over two playlists is over: one has one passing track of two,
\* the rejected path is collected, and the output directory holds what an
\* earlier run left
C25_Witness ==
    /\ command = "create-playlists" /\ dry_run /\ mpc = "exit" /\ exit_code = 0
    /\ Len(report) >= 2
    /\ \E k \in 1..Len(report) :
          report[k].valid_tracks = 1 /\ Len(playlists[k].tracks) = 2
    /\ heap[SelfRef] = { <<"/", "other", "/", "t.mp3">> }
    /\ <<"out", "/", "old_playlist", ".m3u">> \in DOMAIN files
    /\ gi = -1

-----------------------------------------------------------------------------
(* SpecEndToEnd: create-playlists on the catalog of the test fixtures: the
   root-level playlists "Electronic" with two tracks and "Hip Hop" with one,
   all of them under the Crates directory *)

Electronic ==
    [ParentID |-> RootID, Name |-> <<"Electronic">>, is_folder |-> FALSE,
     rb_local_deleted |-> "False",
     Songs |-> <<SongOf(GoodContent), SongOf(UnflaggedContent)>>, raises |-> FALSE]

HipHop ==
    [ParentID |-> RootID, Name |-> <<"Hip Hop">>, is_folder |-> FALSE,
     rb_local_deleted |-> "False",
     Songs |-> <<SongOf(UntitledContent)>>, raises |-> FALSE]

\* the catalog, in either iteration order
EndToEndCatalogs == { <<Electronic, HipHop>>, <<HipHop, Electronic>> }

InitEndToEnd ==
    InitMainWith({c \in Commands : c.command = "create-playlists" /\ ~c.dry_run},
                 {"db", "xml"}, EndToEndCatalogs, { <<"/", "other">> })

NextEndToEnd ==
    \/ \E valid \in BOOLEAN : LoadConfig(valid)
    \/ ConnectRekordbox
    \/ FirstPass
    \/ LoopStep
    \/ LoopEnd
    \/ CallAtRoot
    \/ ReturnToLoop
    \/ NextXml
    \/ ExtractionReturns
    \/ CleanOutputDirectory
    \/ NextGen
    \/ GenerationReturns

SpecEndToEnd == InitEndToEnd /\ [][NextEndToEnd]_vars

(* C26: end to end: for a catalog with two root-level playlists
   "Electronic" (2 valid tracks) and "Hip Hop" (1 valid track), all under
   the source root, extraction followed by nested-mode generation produces
   exactly two playlist files, at {output}/Electronic/Electronic.m3u and
   {output}/Hip Hop/Hip Hop.m3u. *)
C26_EndToEndLayout ==
    (mpc = "exit" /\ exit_code = 0 /\ write_errors = {}) =>
        OutputFiles = { <<"out", "/", "Electronic", "/", "Electronic", ".m3u">>,
                        <<"out", "/", "Hip Hop", "/", "Hip Hop", ".m3u">> }

-----------------------------------------------------------------------------
(* SpecNames: the database extraction of playlists whose names may sanitize
   to the empty string and whose parent may be any record (also itself, or a
   record on a cycle), a deleted record, or missing *)

NamedRecords ==
    [ParentID : NodeIDs \cup {RootID, MissingID},
     Name : { <<"a">>, <<"/">> },
     is_folder : {FALSE},
     rb_local_deleted : {"False"},
     Songs : { <<SongOf(GoodContent)>> },
     raises : {FALSE}]
    \cup { [ParentID |-> RootID, Name |-> <<"a">>, is_folder |-> FALSE,
            rb_local_deleted |-> "True", Songs |-> <<SongOf(GoodContent)>>,
            raises |-> FALSE] }

NamedCatalogs == [1..NumNodes -> NamedRecords]

InitNames == InitExtractWith(NamedCatalogs)

SpecNames == InitNames /\ [][NextExtract]_vars

\* the string has no character that is illegal in a file name
IsSafe(name) == \A k \in 1..Len(name) : name[k] \notin IllegalChars

(* C27: every playlist returned by the database extraction has a defined,
   non-empty name: the component list computed for an included playlist is
   never empty (also for nodes on a parent cycle, nodes with a missing or
   deleted parent, and names that sanitize to the empty string), name is its
   last entry and path is the "/"-join of the entries before it. *)
C27_NameIsDefined ==
    /\ (pc = "return" /\ stack = <<>>) => ret # <<>>
    /\ \A k \in 1..Len(result_playlists) :
          LET e == result_playlists[k]
          IN  /\ e.name # <<>> /\ IsSafe(e.name)
              /\ e.id \in DOMAIN path_info
              /\ \E components \in path_info[e.id] :
                    /\ components # <<>>
                    /\ \A j \in 1..Len(components) : components[j] # <<>>
                    /\ e.name = components[Len(components)]
                    /\ e.path = JoinWith("/", SubSeq(components, 1, Len(components) - 1))
    /\ pc = "done" =>
          \A i \in 1..Len(catalog) : ~IsDeleted(catalog[i]) => IdOf(i) \in ResultIds

\* the extraction returned a playlist whose name sanitizes to the empty
\* string and that lies on a parent cycle, and a playlist whose parent is a
\* deleted record
C27_Witness ==
    /\ pc = "done"
    /\ \E k \in 1..Len(result_playlists) :
          /\ RecordOf(result_playlists[k]).Name = <<"/">>
          /\ result_playlists[k].id \in reentered
    /\ \E k \in 1..Len(result_playlists), i \in 1..Len(catalog) :
          /\ RecordOf(result_playlists[k]).ParentID = IdOf(i)
          /\ IsDeleted(catalog[i])

-----------------------------------------------------------------------------
(* SpecSentinel: a dry run of create-playlists over playlists with a track
   whose catalog source path is null, in any working directory *)

\* a content row whose FolderPath is None
NullPathContent == [rb_local_deleted |-> "False", Title |-> <<"T5">>,
                    Artist |-> <<"Ar">>, FolderPath |-> <<>>]

SentinelCatalogs ==
    [1..NumNodes ->
        [ParentID : {RootID}, Name : { <<"a">> }, is_folder : {FALSE},
         rb_local_deleted : {"False"},
         Songs : { <<SongOf(NullPathContent)>>,
                   <<SongOf(GoodContent), SongOf(NullPathContent)>> },
         raises : {FALSE}]]

InitSentinel ==
    InitMainWith({c \in Commands : c.command = "create-playlists" /\ c.dry_run},
                 {"db", "xml"}, SentinelCatalogs, WorkDirs)

NextSentinel ==
    \/ \E valid \in BOOLEAN : LoadConfig(valid)
    \/ ConnectRekordbox
    \/ FirstPass
    \/ LoopStep
    \/ LoopEnd
    \/ CallAtRoot
    \/ ReturnToLoop
    \/ NextXml
    \/ ExtractionReturns
    \/ DryRunStep
    \/ DryRunEnd

SpecSentinel == InitSentinel /\ [][NextSentinel]_vars

\* the tracks of the returned playlists that come from a row without a path
\* are those with the empty path
SentinelGiven ==
    \A k \in 1..Len(result_playlists) :
        LET e == result_playlists[k]
        IN  \E j \in 1..Len(e.tracks) :
                e.tracks[j].title = NullPathContent.Title /\ e.tracks[j].file_path = <<>>

(* C28: a track whose catalog source path is null is given the empty
   sentinel path, and that track always fails PathConverter validation:
   validate_and_convert_path never returns a destination path for it,
   whatever the process working directory and the source root are. *)
C28_NullPathFailsValidation ==
    /\ SentinelGiven
    /\ (lastcall # NoCall /\ lastcall.path = <<>>) => lastcall.result = None

-----------------------------------------------------------------------------
(* SpecOrphans: the database extraction over root-level playlists named "a"
   and playlists named "a/" whose parent is missing, deleted or another
   record *)

OrphanRecords ==
    { [ParentID |-> RootID, Name |-> <<"a">>, is_folder |-> FALSE,
       rb_local_deleted |-> d, Songs |-> <<SongOf(GoodContent)>>,
       raises |-> FALSE] : d \in {"False", "True"} }
    \cup [ParentID : NodeIDs \cup {MissingID}, Name : { <<"a", "/">> },
          is_folder : {FALSE}, rb_local_deleted : {"False"},
          Songs : { <<SongOf(GoodContent)>> }, raises : {FALSE}]

OrphanCatalogs == [1..NumNodes -> OrphanRecords]

InitOrphans == InitExtractWith(OrphanCatalogs)

SpecOrphans == InitOrphans /\ [][NextExtract]_vars

\* the parent_id of the record names no non-deleted record
IsOrphan(d) == d.ParentID # RootID /\ ~InCatalog(d.ParentID)

(* C29: in the database extraction, a playlist whose parent_id names no
   non-deleted record (the parent folder was deleted or is missing) is still
   returned, with an empty path, and its name is resolved in the same scope
   as the root-level playlists, so it never ends up with the same
   (path, name) as a playlist whose parent is "root". *)
C29_OrphanSharesTheRootScope ==
    \A i \in 1..Len(catalog) :
        (~IsDeleted(catalog[i]) /\ Included(catalog[i]) /\ IsOrphan(catalog[i])) =>
            /\ pc = "done" => IdOf(i) \in ResultIds
            /\ \A k \in 1..Len(result_playlists) :
                  result_playlists[k].id = IdOf(i) =>
                      /\ result_playlists[k].path = <<>>
                      /\ \A j \in 1..Len(result_playlists) :
                            Node(result_playlists[j].id).ParentID = RootID =>
                                \/ result_playlists[j].path # result_playlists[k].path
                                \/ result_playlists[j].name # result_playlists[k].name

-----------------------------------------------------------------------------
(* SpecStable: the database extraction over the acyclic catalogs of folders
   and playlists, in every order of the records *)

StableRecords ==
    [ParentID : NodeIDs \cup {RootID},
     Name : { <<"a">>, <<"a", "/">> },
     is_folder : BOOLEAN,
     rb_local_deleted : {"False"},
     Songs : { <<SongOf(GoodContent)>> },
     raises : {FALSE}]
    \cup { [ParentID |-> MissingID, Name |-> <<"a">>, is_folder |-> TRUE,
            rb_local_deleted |-> "False", Songs |-> <<SongOf(GoodContent)>>,
            raises |-> FALSE] }

\* the chain of parent_id values that starts at id ends, at "root" or at an
\* id without a record, within n steps
RECURSIVE EndsAtRoot(_, _, _)
EndsAtRoot(cat, id, n) ==
    \/ id \in {RootID, MissingID}
    \/ /\ n > 0
       /\ \E i \in 1..Len(cat) :
             IdOf(i) = id /\ EndsAtRoot(cat, cat[i].ParentID, n - 1)

\* no record of the catalog is its own ancestor
IsAcyclic(cat) == \A i \in 1..Len(cat) : EndsAtRoot(cat, IdOf(i), Len(cat))

AcyclicCatalogs == {cat \in [1..NumNodes -> StableRecords] : IsAcyclic(cat)}

InitStable == InitExtractWith(AcyclicCatalogs)

SpecStable == InitStable /\ [][NextExtract]_vars

\* the returned playlist is a child of the folder f
IsChildOf(n, f) == Node(n.id).ParentID = f /\ InCatalog(f) /\ Node(f).is_folder

(* C30: in the database extraction over an acyclic catalog, recomputing
   paths is stable: calling calculate_path_info for the same node any number
   of times, and in any order relative to other nodes, returns the same
   component list, and for every returned playlist n whose parent is a
   folder f, n.path equals the "/"-join of f's component list, so all
   children of one folder get the same path. *)
C30_PathsAreStable ==
    /\ \A id \in DOMAIN path_info : Cardinality(path_info[id]) = 1
    /\ \A k \in 1..Len(result_playlists) : \A f \in NodeIDs :
          IsChildOf(result_playlists[k], f) =>
              /\ f \in DOMAIN path_info
              /\ \A components \in path_info[f] :
                    result_playlists[k].path = JoinWith("/", components)
              /\ \A j \in 1..Len(result_playlists) :
                    IsChildOf(result_playlists[j], f) =>
                        result_playlists[j].path = result_playlists[k].path

\* calculate_path_info has been called twice for a folder, once for each of
\* its two returned children
C30_Witness ==
    /\ pc = "done"
    /\ \E k, j \in 1..Len(result_playlists) : \E f \in NodeIDs :
          /\ k # j
          /\ IsChildOf(result_playlists[k], f) /\ IsChildOf(result_playlists[j], f)
          /\ result_playlists[k].path # <<>>
          /\ result_playlists[k].name # result_playlists[j].name

=============================================================================
